---- MODULE Spec2Model ----
(***************************************************************************)
(* Pincer-MCP: the credential lifecycle of the gateway.                    *)
(*                                                                         *)
(* The gateway process (Pincer.callTool, src/src/pincer.ts) serves tool    *)
(* calls; each call is a cooperative task that yields at its awaits.  The  *)
(* vault database is a file shared with the administrative CLI processes   *)
(* (src/src/cli.ts), whose operations interleave with the calls.  The      *)
(* audit log is a file appended to by AuditLogger.log.                     *)
(***************************************************************************)
EXTENDS Integers, Sequences, FiniteSets, TLC

(***************************************************************************)
(* Bounds of the model.                                                    *)
(***************************************************************************)
MaxCalls == 2
MaxAdminOps == 1
MaxSoloAdminOps == 1
MaxVaultOps == 3
MaxInits == 2
MaxKeyOps == 4
MaxHandleOps == 4
MaxOpsCommands == 2
MaxLogLines == 3

(***************************************************************************)
(* Program constants.                                                      *)
(***************************************************************************)
GenesisHash == 0
HashSpace == 97
MinTokenBody == 21
KeyLength == 32
maxRetries == 3
retryDelay == 1000
SigningMaxRetries == 1

(***************************************************************************)
(* JavaScript values carried by a request: a missing key, a non-string     *)
(* (a number), or a string.  A string is described by what the code looks  *)
(* at: its prefix, the length of the rest, whether the rest is in the      *)
(* URL-safe alphabet, and an identity that tells equal strings apart.      *)
(***************************************************************************)
Absent == [kind |-> "absent", prefix |-> "", len |-> 0, urlsafe |-> TRUE, id |-> 0]
NonString == [kind |-> "number", prefix |-> "", len |-> 0, urlsafe |-> TRUE, id |-> 42]
EmptyStr == [kind |-> "string", prefix |-> "", len |-> 0, urlsafe |-> TRUE, id |-> 0]
Text == [kind |-> "string", prefix |-> "text", len |-> 0, urlsafe |-> TRUE, id |-> 0]
Tok(n) == [kind |-> "string", prefix |-> "pxr_", len |-> MinTokenBody, urlsafe |-> TRUE, id |-> n]
ShortTok == [kind |-> "string", prefix |-> "pxr_", len |-> MinTokenBody - 1, urlsafe |-> TRUE, id |-> 9]

\* JavaScript truthiness of a value (!v is FALSE).
Truthy(v) ==
    \/ v.kind = "number"
    \/ v.kind = "string" /\ (v.prefix # "" \/ v.len > 0)

IsString(v) == v.kind = "string"

AGENTS == {"bot", "ops"}
TOOLS == {"gemini_generate", "gpg_sign_data", "slack_send_message"}
LABELS == {"default", "prod"}
ArgKeys == {"__pincer_auth__", "prompt", "model", "data"}
AuthKey == "__pincer_auth__"

\* Plaintext secrets, as character sequences (the empty string included).
SecretValues == {<<"A">>, <<"B", "C">>, << >>}

NoAgent == "none"
UnknownAgent == "unknown"

(***************************************************************************)
(* State.                                                                  *)
(***************************************************************************)
VARIABLES
    tokens,         \* vault table proxy_tokens: agent -> proxy token
    mappings,       \* vault table agent_mappings: <<agent, tool>> -> key label
    secrets,        \* vault table secrets: <<name, label>> -> [plaintext, key]
    keychain,       \* the master key in the OS keychain (0: none)
    env,            \* PINCER_PROXY_TOKEN of the gateway process
    masterKey,      \* the injector's cached master key (0: null)
    lastHash,       \* AuditLogger.lastHash
    log,            \* the audit log file, a sequence of entries
    activeSecrets,  \* VaultInjector.activeSecrets (calls whose request is tracked)
    exited,         \* the gateway process has exited
    call,           \* the in-flight callTool invocations
    hist,           \* per call: what happened to it (history only)
    revoked,        \* <<agent, tool>> revoked and not authorized again (history)
    removed,        \* proxy tokens removed and not registered again (history)
    adminOps,       \* administrative operations run so far
    outcome,        \* how the last CLI command ended ("ok" or the error it printed)
    logExists,      \* the audit log file exists
    closed,         \* the vault handles of the gateway that were closed
    memory,         \* master keys left in buffers that were dropped unzeroed
    listed,         \* the last response of listTools
    initPc,         \* per init command: where it stands in initializeMasterKey
    inits,          \* init commands that succeeded since the last key deletion (history)
    writable,       \* appendFileSync on the audit log succeeds
    peerLastHash    \* AuditLogger.lastHash of a second gateway process

vars == <<tokens, mappings, secrets, keychain, env, masterKey, lastHash, log,
          activeSecrets, exited, call, hist, revoked, removed, adminOps, outcome,
          logExists, closed, memory, listed, initPc, inits, writable, peerLastHash>>

ctlVars == <<listed, initPc, inits>>
vaultVars == <<tokens, mappings, secrets, keychain, revoked, removed, adminOps, outcome,
               ctlVars>>
auditVars == <<lastHash, log, logExists, writable, peerLastHash>>

(***************************************************************************)
(* Error messages and responses.  A text is described by its kind, the     *)
(* HTTP status it quotes, the agent and tool it names, the set of          *)
(* plaintext secrets that occur in it, and the word of the upstream's own  *)
(* text that the retry policy looks for ("" when there is none).           *)
(***************************************************************************)
Msg(kind, status, contains, agent, tool) ==
    [kind |-> kind, status |-> status, contains |-> contains, agent |-> agent,
     tool |-> tool, says |-> ""]

\* The message with the upstream's text appended.
Said(msg, word) == [msg EXCEPT !.says = word]

NoMsg == Msg("none", 0, {}, NoAgent, "")
Plain(kind) == Msg(kind, 0, {}, NoAgent, "")

NoResponse == [text |-> "none", contains |-> {}, isError |-> FALSE]
NoListing == [answered |-> FALSE, tools |-> {}]

(***************************************************************************)
(* Gatekeeper (src/unnamed/part_000).                                      *)
(***************************************************************************)

\* A variant that returns the token of the arguments without deleting it.
extractProxyTokenKeepingKey(request, envToken) ==
    IF request.meta.kind # "absent" /\ IsString(request.meta)
    THEN [token |-> request.meta, args |-> request.args]
    ELSE IF request.args[AuthKey].kind # "absent"
    THEN [token |-> request.args[AuthKey], args |-> request.args]
    ELSE IF Truthy(envToken) /\ IsString(envToken)
    THEN [token |-> envToken, args |-> request.args]
    ELSE [token |-> Absent, args |-> request.args]

\* extractProxyToken: the token found, and the arguments map as the call
\* leaves it (delete args["__pincer_auth__"] mutates the request).
extractProxyToken(request, envToken) ==
    IF request.meta.kind # "absent" /\ IsString(request.meta)
    THEN [token |-> request.meta, args |-> request.args]
    ELSE IF request.args[AuthKey].kind # "absent"
    THEN [token |-> request.args[AuthKey],
          args |-> [request.args EXCEPT ![AuthKey] = Absent]]
    ELSE IF Truthy(envToken) /\ IsString(envToken)
    THEN [token |-> envToken, args |-> request.args]
    ELSE [token |-> Absent, args |-> request.args]

\* A variant that checks the prefix only.
isValidProxyTokenPrefixOnly(token) ==
    /\ token.kind = "string"
    /\ token.prefix = "pxr_"

\* /^pxr_[A-Za-z0-9_-]{21,}$/.test(token)
isValidProxyToken(token) ==
    /\ token.kind = "string"
    /\ token.prefix = "pxr_"
    /\ token.len >= MinTokenBody
    /\ token.urlsafe

(***************************************************************************)
(* VaultStore reads (src/src/vault/store.ts), as functions of the rows of  *)
(* the table they query.                                                   *)
(***************************************************************************)
\* getAgentByProxyToken: row?.agent_id || null.
getAgentByProxyToken(tokenRows, proxyToken) ==
    IF \E a \in DOMAIN tokenRows : tokenRows[a] = proxyToken
    THEN LET a == CHOOSE b \in DOMAIN tokenRows : tokenRows[b] = proxyToken
         IN  IF a = "" THEN NoAgent ELSE a
    ELSE NoAgent


\* A variant that skips the lookup.
isAgentAuthorizedUnchecked(mappingRows, agentId, toolName) == TRUE

\* A variant that answers from what it saw before the revocation.
isAgentAuthorizedCached(mappingRows, agentId, toolName) ==
    \/ <<agentId, toolName>> \in DOMAIN mappingRows
    \/ <<agentId, toolName>> \in revoked

isAgentAuthorized(mappingRows, agentId, toolName) ==
    <<agentId, toolName>> \in DOMAIN mappingRows

\* A variant that ignores the mapping's label.
getAgentKeyLabelDefault(mappingRows, agentId, toolName) == "default"

\* getAgentKeyLabel: result?.key_label || "default".
getAgentKeyLabel(mappingRows, agentId, toolName) ==
    IF <<agentId, toolName>> \in DOMAIN mappingRows
         /\ mappingRows[<<agentId, toolName>>] # ""
    THEN mappingRows[<<agentId, toolName>>]
    ELSE "default"

\* Master keys are numbered; 0 stands for no key.  A positive number is a
\* key of 32 bytes, a negative one a keychain value that decodes to fewer.
KeyBytes(key) == IF key < 0 THEN KeyLength \div 2 ELSE KeyLength

\* getMasterKey on a handle whose field masterKey is cache (0: null): the
\* cached key if there is one; else the keychain's value is decoded and
\* assigned to the field, and its length is checked after that.  cache is
\* the field when the call is over.
getMasterKey(cache, keychainKey) ==
    IF cache # 0
    THEN [ok |-> TRUE, key |-> cache, cache |-> cache, error |-> NoMsg]
    ELSE IF keychainKey = 0
    THEN [ok |-> FALSE, key |-> 0, cache |-> 0, error |-> Plain("NotInitialized")]
    ELSE IF KeyBytes(keychainKey) # KeyLength
    THEN [ok |-> FALSE, key |-> 0, cache |-> keychainKey,
          error |-> Plain("InvalidKeyLength")]
    ELSE [ok |-> TRUE, key |-> keychainKey, cache |-> keychainKey, error |-> NoMsg]

\* A variant that reads a missing row as an empty secret.
getSecretEmptyWhenMissing(secretRows, name, label, key) ==
    IF <<name, label>> \notin DOMAIN secretRows
    THEN [ok |-> TRUE, value |-> << >>, error |-> NoMsg]
    ELSE IF key = 0
    THEN [ok |-> FALSE, value |-> << >>, error |-> Plain("NotInitialized")]
    ELSE IF secretRows[<<name, label>>].key # key
    THEN [ok |-> FALSE, value |-> << >>, error |-> Plain("AuthFailure")]
    ELSE [ok |-> TRUE, value |-> secretRows[<<name, label>>].plaintext, error |-> NoMsg]

\* getSecret: the row's plaintext, or the error it raises.  key is what
\* getMasterKey handed to decrypt (0: it found none); createDecipheriv
\* rejects a key that is not of 32 bytes, the auth tag a key that is not
\* the one the row was encrypted with.
getSecret(secretRows, name, label, key) ==
    IF <<name, label>> \notin DOMAIN secretRows
    THEN [ok |-> FALSE, value |-> << >>, error |-> Plain("SecretMissing")]
    ELSE IF key = 0
    THEN [ok |-> FALSE, value |-> << >>, error |-> Plain("NotInitialized")]
    ELSE IF KeyBytes(key) # KeyLength
    THEN [ok |-> FALSE, value |-> << >>, error |-> Plain("CipherKeyLength")]
    ELSE IF secretRows[<<name, label>>].key # key
    THEN [ok |-> FALSE, value |-> << >>, error |-> Plain("AuthFailure")]
    ELSE [ok |-> TRUE, value |-> secretRows[<<name, label>>].plaintext, error |-> NoMsg]

(***************************************************************************)
(* Validator (src/src/security/validator.ts) and CallerRegistry            *)
(* (src/src/callers/registry.ts).                                          *)
(***************************************************************************)
SchemaTools == {"gemini_generate", "gpg_sign_data"}
CallerTools == {"gemini_generate"}

OptionalString(v) == v.kind = "absent" \/ IsString(v)
NonEmptyString(v) == IsString(v) /\ Truthy(v)

\* validate: the error it throws, or NoMsg.
validate(toolName, args) ==
    IF toolName \notin SchemaTools THEN Plain("UnknownTool")
    ELSE IF toolName = "gemini_generate"
    THEN IF /\ NonEmptyString(args["prompt"])
            /\ NonEmptyString(args["model"])
            /\ OptionalString(args[AuthKey])
         THEN NoMsg ELSE Plain("ValidationFailure")
    ELSE IF /\ OptionalString(args["data"])
            /\ OptionalString(args[AuthKey])
            /\ args["data"].kind # "absent"
         THEN NoMsg ELSE Plain("ValidationFailure")

\* getCaller: the error it throws, or NoMsg.
getCaller(toolName) ==
    IF toolName \in CallerTools THEN NoMsg ELSE Plain("NoCaller")

(***************************************************************************)
(* VaultInjector (src/src/audit/logger.ts, second half).                   *)
(***************************************************************************)
getSecretKeyForTool(toolName) ==
    IF toolName = "gemini_generate" THEN "gemini_api_key"
    ELSE IF toolName = "slack_send_message" THEN "slack_token"
    ELSE toolName

SecretNames == {getSecretKeyForTool(t) : t \in TOOLS}

NoEnriched == [present |-> FALSE, hasKey |-> FALSE, apiKey |-> << >>, agentId |-> NoAgent]

Enrich(apiKey, agentId) ==
    [present |-> TRUE, hasKey |-> TRUE, apiKey |-> apiKey, agentId |-> agentId]

Zeros(n) == [i \in 1..n |-> "0"]


\* A variant that overwrites the key and leaves the field in place.
scrubMemoryOverwriteOnly(enriched, active, c) ==
    [request |-> [enriched EXCEPT !.apiKey = Zeros(Len(enriched.apiKey))],
     active |-> active \ {c}]

\* scrubMemory: the request and the tracking set after the call.
scrubMemory(enriched, active, c) ==
    LET zeroed == [enriched EXCEPT !.apiKey = Zeros(Len(enriched.apiKey))]
        request == IF enriched.hasKey /\ Len(enriched.apiKey) > 0
                   THEN [zeroed EXCEPT !.hasKey = FALSE, !.apiKey = << >>]
                   ELSE enriched
    IN [request |-> request, active |-> active \ {c}]

(***************************************************************************)
(* AuditLogger (src/src/audit/logger.ts, first half).                      *)
(***************************************************************************)
AgentCode(a) == IF a = "bot" THEN 1 ELSE IF a = "ops" THEN 2 ELSE 3
ToolCode(t) ==
    IF t = "gemini_generate" THEN 1 ELSE IF t = "gpg_sign_data" THEN 2 ELSE 3
KindCode(k) ==
    IF k = "none" THEN 0
    ELSE IF k \in {"MissingToken", "BadTokenFormat"} THEN 1
    ELSE IF k \in {"UnknownToken", "Forbidden"} THEN 2
    ELSE IF k \in {"UnknownTool", "ValidationFailure", "NoCaller"} THEN 3
    ELSE IF k \in {"SecretMissing", "NotInitialized", "AuthFailure"} THEN 4
    ELSE 5

\* JSON.stringify(event), as a number.
EventJson(event) ==
    AgentCode(event.agentId) + 4 * ToolCode(event.tool)
        + 16 * (IF event.status = "success" THEN 0 ELSE 1)
        + 32 * KindCode(event.error.kind) + event.error.status
        + Cardinality(event.error.contains)

\* computeChainHash: SHA-256(lastHash + data), cut to 16 hex digits.
computeChainHash(last, data) == (31 * last + data + 1) % HashSpace

\* A variant that never names the agent.
AuditEventAnonymous(agentId, tool, status, error, c) ==
    [agentId |-> UnknownAgent, tool |-> tool, status |-> status, error |-> error, call |-> c]

AuditEvent(agentId, tool, status, error, c) ==
    [agentId |-> agentId, tool |-> tool, status |-> status, error |-> error, call |-> c]

\* The line log() appends for an event when lastHash is last.
LogEntry(event, last) ==
    [agentId |-> event.agentId, tool |-> event.tool, status |-> event.status,
     error |-> event.error, call |-> event.call,
     chainHash |-> computeChainHash(last, EventJson(event)),
     prevHash |-> last]


\* A variant that forgets to move the chain on.
KeepLastHash(entry, last) == last

\* lastHash after log() appended entry.
NextLastHash(entry, last) == entry.chainHash

\* Lines of a log file that log() did not write: text that is no JSON, the
\* JSON text null, and a JSON object without a chainHash.
GarbageLine == [text |-> "garbage"]
NullLine == [text |-> "null"]
BareLine == [agentId |-> "bot"]

\* JSON.parse(lastLine).chainHash raises an error: the text is no JSON, or
\* it is null, which has no properties.
ParseThrows(line) == "text" \in DOMAIN line

\* A variant that starts every process from the genesis hash.
loadLastHashGenesis(exists, lines) == GenesisHash

\* loadLastHash: the chainHash of the last line of the trimmed file; the
\* genesis hash of the field initializer stays when there is no file, no
\* line, a last line that cannot be parsed, or one without a chainHash.
loadLastHash(exists, lines) ==
    IF ~exists THEN GenesisHash
    ELSE IF lines = << >> THEN GenesisHash
    ELSE LET lastLine == lines[Len(lines)]
         IN  IF ParseThrows(lastLine) THEN GenesisHash
             ELSE IF "chainHash" \in DOMAIN lastLine THEN lastLine.chainHash
             ELSE GenesisHash

(***************************************************************************)
(* BaseCaller (src/unnamed/part_003) and GeminiCaller                      *)
(* (src/src/callers/gemini.ts).                                            *)
(***************************************************************************)
\* message.toLowerCase(), on the words an upstream text can carry.
toLowerCase(word) ==
    IF word = "Unauthorized" THEN "unauthorized"
    ELSE IF word = "FORBIDDEN" THEN "forbidden"
    ELSE word

\* A variant that compares the message as it was written.
isAuthErrorCaseSensitive(error) ==
    \/ error.status \in {401, 403}
    \/ error.says \in {"unauthorized", "forbidden"}

\* isAuthError: the lowered message includes "unauthorized", "forbidden",
\* "401" or "403".
isAuthError(error) ==
    \/ error.status \in {401, 403}
    \/ toLowerCase(error.says) \in {"unauthorized", "forbidden"}

\* What the upstream API can answer: an HTTP status, whether its text
\* repeats the key it was sent, and a word of its text.
UpstreamReplies == [status : {200, 401, 500}, echo : BOOLEAN, says : {""}]

\* executeInternal: the response it returns or the error it throws.
executeInternal(enriched, args, reply) ==
    LET echoed == IF reply.echo THEN {enriched.apiKey} ELSE {}
    IN  IF ~(enriched.hasKey /\ Len(enriched.apiKey) > 0)
        THEN [ok |-> FALSE, response |-> NoResponse, error |-> Plain("ApiKeyRequired")]
        ELSE IF ~NonEmptyString(args["prompt"])
        THEN [ok |-> FALSE, response |-> NoResponse, error |-> Plain("PromptRequired")]
        ELSE IF reply.status # 200
        THEN [ok |-> FALSE, response |-> NoResponse,
              error |-> Said(Msg("Upstream", reply.status, echoed, NoAgent, ""), reply.says)]
        ELSE [ok |-> TRUE,
              response |-> [text |-> "ok", contains |-> echoed, isError |-> FALSE],
              error |-> NoMsg]

\* SigningCaller.executeInternal for gpg_sign_data: the data to sign must be
\* there; the reply stands for what openpgp does with the key bundle.
signData(enriched, args, reply) ==
    IF ~Truthy(args["data"])
    THEN [ok |-> FALSE, response |-> NoResponse, error |-> Plain("DataRequired")]
    ELSE IF reply.status # 200
    THEN [ok |-> FALSE, response |-> NoResponse,
          error |-> Said(Plain("SigningFailed"), reply.says)]
    ELSE [ok |-> TRUE,
          response |-> [text |-> "signature", contains |-> {}, isError |-> FALSE],
          error |-> NoMsg]

\* The caller class that serves a tool decides the attempt and the limit.
executeInternalOf(toolName, enriched, args, reply) ==
    IF toolName = "gpg_sign_data" THEN signData(enriched, args, reply)
    ELSE executeInternal(enriched, args, reply)

maxRetriesOf(toolName) ==
    IF toolName = "gpg_sign_data" THEN SigningMaxRetries ELSE maxRetries

\* The compound error raised when every attempt failed.
RetryExhausted(lastError) ==
    Said(Msg("RetryExhausted", lastError.status, lastError.contains, NoAgent, ""),
         lastError.says)

\* A variant that waits the same time before every attempt.
BackoffConstant(attempt) == retryDelay

\* The backoff before the attempt after attempt number k.
Backoff(attempt) == retryDelay * (2 ^ attempt)

\* One pass of the loop of BaseCaller.execute, given the result r of the
\* attempt: return, rethrow, sleep, or leave the loop and raise.
executeLoop(rec, r, retries) ==
    LET failed == [rec EXCEPT !.lastError = r.error]
    IN  IF r.ok
        THEN [outcome |-> "return", rec |-> [rec EXCEPT !.response = r.response],
              error |-> NoMsg]
        ELSE IF isAuthError(r.error)
        THEN [outcome |-> "throw", rec |-> failed, error |-> r.error]
        ELSE IF rec.attempt < retries - 1
        THEN [outcome |-> "sleep",
              rec |-> [failed EXCEPT !.sleeps = Append(@, Backoff(rec.attempt))],
              error |-> NoMsg]
        ELSE [outcome |-> "throw", rec |-> [failed EXCEPT !.attempt = @ + 1],
              error |-> RetryExhausted(r.error)]

(***************************************************************************)
(* The calls and the initial state.                                        *)
(***************************************************************************)
Calls == 1..MaxCalls
InitCommands == 1..MaxInits

NoArgs == [k \in ArgKeys |-> Absent]

NoRequest == [name |-> "", meta |-> Absent, args |-> NoArgs]

IdleCall ==
    [pc |-> "idle", request |-> NoRequest, agentId |-> UnknownAgent,
     authAgent |-> NoAgent, proxyToken |-> Absent, enriched |-> NoEnriched,
     attempt |-> 0, sleeps |-> << >>, lastError |-> NoMsg, error |-> NoMsg,
     response |-> NoResponse]

NoHist ==
    [request |-> NoRequest, facts |-> {}, getSecrets |-> 0, executes |-> 0,
     scrubs |-> 0, validatorSaw |-> NoArgs, callerSaw |-> NoArgs,
     injected |-> << >>]

\* The vault of scenario S1: agent bot, authorized for every tool under the
\* default label, and the default secret of gemini_generate.
S1Tokens == [a \in {"bot"} |-> Tok(1)]
S1Mappings == [p \in {"bot"} \X TOOLS |-> "default"]
S1Secrets(v) ==
    [p \in {<<"gemini_api_key", "default">>} |-> [plaintext |-> v, key |-> 1]]

EnvTokens == {Absent, EmptyStr, Tok(2)}

\* A gateway that has not logged yet, with its handles open, beside a
\* keychain that one init command filled.
InitRest ==
    /\ logExists = FALSE
    /\ closed = {}
    /\ memory = {}
    /\ listed = NoListing
    /\ initPc = [p \in InitCommands |-> "idle"]
    /\ inits = 1
    /\ writable = TRUE
    /\ peerLastHash = GenesisHash

InitWith(envs, values) ==
    /\ tokens = S1Tokens
    /\ mappings = S1Mappings
    /\ \E v \in values : secrets = S1Secrets(v)
    /\ keychain = 1
    /\ env \in envs
    /\ masterKey = 0
    /\ lastHash = GenesisHash
    /\ log = << >>
    /\ activeSecrets = {}
    /\ exited = FALSE
    /\ call = [c \in Calls |-> IdleCall]
    /\ hist = [c \in Calls |-> NoHist]
    /\ revoked = {}
    /\ removed = {}
    /\ adminOps = 0
    /\ outcome = "none"
    /\ InitRest

Init == InitWith({Absent}, {<<"A">>})

(***************************************************************************)
(* Pincer.callTool (src/src/pincer.ts), one action per run between awaits. *)
(***************************************************************************)
\* A variant of log() that opens the file for writing, not for appending.
LogOverwriting(event) ==
    /\ log' = <<LogEntry(event, lastHash)>>
    /\ logExists' = TRUE
    /\ lastHash' = NextLastHash(LogEntry(event, lastHash), lastHash)
    /\ UNCHANGED <<writable, peerLastHash>>

\* A variant of log() that moves lastHash on before it appends.
LogMovingFirst(event) ==
    /\ lastHash' = NextLastHash(LogEntry(event, lastHash), lastHash)
    /\ log' = IF writable THEN Append(log, LogEntry(event, lastHash)) ELSE log
    /\ logExists' = (logExists \/ writable)
    /\ UNCHANGED <<writable, peerLastHash>>

\* audit.log(event): the append and the update of lastHash.  When
\* appendFileSync throws, the assignment after it is not reached.
Log(event) ==
    /\ log' = IF writable THEN Append(log, LogEntry(event, lastHash)) ELSE log
    /\ logExists' = (logExists \/ writable)
    /\ lastHash' = IF writable THEN NextLastHash(LogEntry(event, lastHash), lastHash)
                   ELSE lastHash
    /\ UNCHANGED <<writable, peerLastHash>>


\* A variant of the catch block that rethrows without logging.
CatchWithoutLog(c, rec, error) ==
    /\ call' = [call EXCEPT ![c] = [rec EXCEPT !.pc = "logged", !.error = error]]
    /\ UNCHANGED auditVars

\* The catch block of callTool: log the failure; the rethrow follows.  When
\* log itself throws, its error leaves the catch block in place of error.
Catch(c, rec, error) ==
    /\ call' = [call EXCEPT ![c] =
                   [rec EXCEPT !.pc = "logged",
                               !.error = IF writable THEN error ELSE Plain("AppendFailed")]]
    /\ Log(AuditEvent(rec.agentId, rec.request.name, "error", error, c))

Note(c, field, value) == [hist EXCEPT ![c][field] = value]

\* callTool up to the first await of authenticate: extract the token, check
\* its format, look the agent up.
CallTool(c, request) ==
    /\ ~exited
    /\ call[c].pc = "idle"
    /\ LET x == extractProxyToken(request, env)
           a == getAgentByProxyToken(tokens, x.token)
           rec == [call[c] EXCEPT !.request = [request EXCEPT !.args = x.args],
                                  !.proxyToken = x.token]
           facts == (IF x.token.kind = "string" /\ x.token.prefix = "pxr_"
                        /\ x.token.len >= MinTokenBody /\ x.token.urlsafe
                     THEN {"format"} ELSE {})
                    \cup (IF \E b \in DOMAIN tokens : tokens[b] = x.token
                          THEN {"resolved"} ELSE {})
                    \cup (IF x.token \in removed THEN {"removed"} ELSE {})
                    \cup (IF Truthy(x.token) /\ isValidProxyToken(x.token)
                          THEN {"lookup"} ELSE {})
       IN  /\ hist' = [hist EXCEPT ![c].request = request, ![c].facts = facts]
           /\ IF ~Truthy(x.token)
              THEN Catch(c, rec, Plain("MissingToken"))
              ELSE IF ~isValidProxyToken(x.token)
              THEN Catch(c, rec, Plain("BadTokenFormat"))
              ELSE IF a = NoAgent
              THEN Catch(c, rec, Plain("UnknownToken"))
              ELSE /\ call' = [call EXCEPT ![c] = [rec EXCEPT !.pc = "authz",
                                                             !.authAgent = a]]
                   /\ UNCHANGED auditVars
    /\ UNCHANGED <<vaultVars, env, masterKey, activeSecrets, exited, closed, memory>>

\* authenticate after its await: the authorization check and the return.
CheckAuthorized(c) ==
    /\ ~exited
    /\ call[c].pc = "authz"
    /\ LET a == call[c].authAgent
           t == call[c].request.name
           facts == hist[c].facts
                    \cup (IF <<a, t>> \in DOMAIN mappings THEN {"mapped"} ELSE {})
                    \cup (IF <<a, t>> \in revoked THEN {"revoked"} ELSE {})
       IN  /\ hist' = Note(c, "facts", facts)
           /\ IF ~isAgentAuthorized(mappings, a, t)
              THEN Catch(c, call[c], Msg("Forbidden", 0, {}, a, t))
              ELSE /\ call' = [call EXCEPT ![c].pc = "inject", ![c].agentId = a]
                   /\ UNCHANGED auditVars
    /\ UNCHANGED <<vaultVars, env, masterKey, activeSecrets, exited, closed, memory>>

\* callTool after authenticate returned: validate, getCaller and
\* injectCredentials.  The one wait inside is getMasterKey's keychain read;
\* it comes after the row was read and before the enriched request exists,
\* and its result depends on nothing a call or a command writes meanwhile.
Inject(c) ==
    /\ ~exited
    /\ call[c].pc = "inject"
    /\ LET rec == call[c]
           t == rec.request.name
           invalid == validate(t, rec.request.args)
           nocaller == getCaller(t)
           label == getAgentKeyLabel(mappings, rec.agentId, t)
           name == getSecretKeyForTool(t)
           m == getMasterKey(masterKey, keychain)
           read == getSecret(secrets, name, label, m.key)
           got == IF <<name, label>> \in DOMAIN secrets /\ ~m.ok
                  THEN [read EXCEPT !.error = m.error] ELSE read
           reached == invalid = NoMsg /\ nocaller = NoMsg
           facts == hist[c].facts
                    \cup (IF invalid = NoMsg THEN {"validated"} ELSE {})
                    \cup (IF t \in CallerTools THEN {"caller"} ELSE {})
       IN  /\ hist' = [hist EXCEPT
                         ![c].facts = facts,
                         ![c].validatorSaw = rec.request.args,
                         ![c].getSecrets = IF reached THEN @ + 1 ELSE @,
                         ![c].injected = IF reached /\ got.ok THEN got.value ELSE @]
           /\ masterKey' = IF reached /\ <<name, label>> \in DOMAIN secrets
                           THEN m.cache ELSE masterKey
           /\ IF invalid # NoMsg THEN Catch(c, rec, invalid) /\ UNCHANGED activeSecrets
              ELSE IF nocaller # NoMsg THEN Catch(c, rec, nocaller) /\ UNCHANGED activeSecrets
              ELSE IF ~got.ok THEN Catch(c, rec, got.error) /\ UNCHANGED activeSecrets
              ELSE /\ call' = [call EXCEPT ![c].pc = "exec",
                                           ![c].enriched = Enrich(got.value, rec.agentId)]
                   /\ activeSecrets' = activeSecrets \cup {c}
                   /\ UNCHANGED auditVars
    /\ UNCHANGED <<vaultVars, env, exited, closed, memory>>

\* One attempt of BaseCaller.execute inside callTool: executeInternal and
\* the catch of the retry loop.
Execute(c, reply) ==
    /\ ~exited
    /\ call[c].pc = "exec"
    /\ LET rec == call[c]
           t == rec.request.name
           r == executeInternalOf(t, rec.enriched, rec.request.args, reply)
           x == executeLoop(rec, r, maxRetriesOf(t))
       IN  /\ hist' = [hist EXCEPT ![c].executes = @ + 1,
                                   ![c].callerSaw = rec.request.args]
           /\ IF x.outcome = "return"
              THEN /\ call' = [call EXCEPT ![c] = [x.rec EXCEPT !.pc = "scrub"]]
                   /\ UNCHANGED auditVars
              ELSE IF x.outcome = "sleep"
              THEN /\ call' = [call EXCEPT ![c] = [x.rec EXCEPT !.pc = "backoff"]]
                   /\ UNCHANGED auditVars
              ELSE Catch(c, x.rec, x.error)
    /\ UNCHANGED <<vaultVars, env, masterKey, activeSecrets, exited, closed, memory>>

\* The backoff timer fires: the loop goes to its next attempt.
Wake(c) ==
    /\ ~exited
    /\ call[c].pc = "backoff"
    /\ call' = [call EXCEPT ![c].pc = "exec", ![c].attempt = @ + 1]
    /\ UNCHANGED <<vaultVars, auditVars, env, masterKey, activeSecrets, exited,
                   closed, memory, hist>>

\* callTool after execute returned: scrubMemory, then the success entry; an
\* append that throws takes the call to the catch block.
Finish(c) ==
    /\ ~exited
    /\ call[c].pc = "scrub"
    /\ LET rec == call[c]
           s == scrubMemory(rec.enriched, activeSecrets, c)
       IN  /\ call' = [call EXCEPT
                         ![c].pc = IF writable THEN "logged" ELSE "caught",
                         ![c].enriched = s.request,
                         ![c].error = IF writable THEN @ ELSE Plain("AppendFailed")]
           /\ activeSecrets' = s.active
           /\ hist' = [hist EXCEPT ![c].scrubs = @ + 1]
           /\ Log(AuditEvent(rec.agentId, rec.request.name, "success", NoMsg, c))
    /\ UNCHANGED <<vaultVars, env, masterKey, exited, closed, memory>>

\* The catch block entered because the success entry could not be appended:
\* it logs that error and rethrows it.
CatchLogFailure(c) ==
    /\ ~exited
    /\ call[c].pc = "caught"
    /\ Catch(c, call[c], call[c].error)
    /\ UNCHANGED <<vaultVars, env, masterKey, activeSecrets, exited, closed, memory, hist>>

\* return { ...result, isError: false }
Return(c) ==
    /\ ~exited
    /\ call[c].pc = "logged"
    /\ call[c].error = NoMsg
    /\ call' = [call EXCEPT ![c].pc = "returned"]
    /\ UNCHANGED <<vaultVars, auditVars, env, masterKey, activeSecrets, exited,
                   closed, memory, hist>>

\* throw error
Throw(c) ==
    /\ ~exited
    /\ call[c].pc = "logged"
    /\ call[c].error # NoMsg
    /\ call' = [call EXCEPT ![c].pc = "thrown"]
    /\ UNCHANGED <<vaultVars, auditVars, env, masterKey, activeSecrets, exited,
                   closed, memory, hist>>

(***************************************************************************)
(* The SIGINT/SIGTERM handlers (src/src/index.ts): Pincer.close, then      *)
(* process.exit.  A handler runs when every call waits on I/O or a timer.  *)
(***************************************************************************)
\* The orchestrator's two vault handles.  The Gatekeeper's only runs
\* queries on the token and mapping tables, so it never caches the master
\* key; the injector's cache is the variable masterKey.
GatewayHandles == {"gatekeeper", "injector"}

\* A variant of close that drops the cached key without overwriting it.
closeWithoutFill(cache) ==
    [masterKey |-> 0, dropped |-> IF cache # 0 THEN {cache} ELSE {}]

\* VaultStore.close on a handle whose cache is cache (0: null): the buffer
\* is filled with zeros, then the reference is dropped.  dropped is what
\* stays readable in the buffer that is left behind.
close(cache) == [masterKey |-> 0, dropped |-> {}]

\* VaultStore.deleteMasterKey on the handle's cache: the reference is set
\* to null and the buffer is left as it is.
dropMasterKey(cache) ==
    [masterKey |-> 0, dropped |-> IF cache # 0 THEN {cache} ELSE {}]

Waiting(c) == call[c].pc \in {"idle", "exec", "backoff", "returned", "thrown"}

Shutdown ==
    /\ ~exited
    /\ \A c \in Calls : Waiting(c)
    /\ masterKey' = close(masterKey).masterKey
    /\ memory' = memory \cup close(0).dropped \cup close(masterKey).dropped
    /\ closed' = GatewayHandles
    /\ exited' = TRUE
    /\ UNCHANGED <<vaultVars, auditVars, env, activeSecrets, call, hist>>

\* The gateway is started again (src/src/index.ts: new Pincer()): fresh
\* handles and fields, and an AuditLogger that loads lastHash from the file.
Start ==
    /\ exited
    /\ Len(log) < MaxLogLines
    /\ exited' = FALSE
    /\ lastHash' = loadLastHash(logExists, log)
    /\ closed' = {}
    /\ masterKey' = 0
    /\ activeSecrets' = {}
    /\ call' = [c \in Calls |-> IdleCall]
    /\ hist' = [c \in Calls |-> NoHist]
    /\ UNCHANGED <<vaultVars, log, logExists, writable, peerLastHash, env, memory>>

\* CallerRegistry.getToolSchemas: the static list, here the tools of the
\* model that are on it.
getToolSchemas == {"gemini_generate", "slack_send_message"}

\* A variant that lists the tools some agent is authorized for.
listToolsAuthorized(request) ==
    [answered |-> TRUE, tools |-> {p[2] : p \in DOMAIN mappings} \cap getToolSchemas]

\* Pincer.listTools; the handler does not pass the request on.
listTools(request) == [answered |-> TRUE, tools |-> getToolSchemas]

ListRequests == [meta : {Absent, ShortTok, Tok(1)}]

ListTools(request) ==
    /\ ~exited
    /\ listed' = listTools(request)
    /\ UNCHANGED <<tokens, mappings, secrets, keychain, revoked, removed, adminOps,
                   outcome, initPc, inits, auditVars, env, masterKey,
                   activeSecrets, exited, closed, memory, call, hist>>

(***************************************************************************)
(* The administrative CLI (src/src/cli.ts), each command a process of its  *)
(* own that works on the vault through VaultStore.                         *)
(***************************************************************************)
Without(f, keys) == [k \in DOMAIN f \ keys |-> f[k]]
With(f, k, v) == [x \in DOMAIN f \cup {k} |-> IF x = k THEN v ELSE f[x]]

\* addAgent: the INSERT fails on either UNIQUE column and the command
\* reports the conflict.
addAgent(agentId, proxyToken, limit) ==
    /\ adminOps < limit
    /\ LET conflict == \/ agentId \in DOMAIN tokens
                       \/ \E a \in DOMAIN tokens : tokens[a] = proxyToken
       IN  /\ tokens' = IF conflict THEN tokens ELSE With(tokens, agentId, proxyToken)
           /\ removed' = IF conflict THEN removed ELSE removed \ {proxyToken}
           /\ outcome' = IF conflict THEN "Conflict" ELSE "ok"
    /\ adminOps' = adminOps + 1
    /\ UNCHANGED <<mappings, secrets, keychain, revoked, env, masterKey, auditVars,
                   ctlVars, activeSecrets, exited, closed, memory, call, hist>>

\* A variant that keeps the label of a mapping that is already there.
setAgentMappingIgnore(agentId, toolName, keyLabel, limit) ==
    /\ adminOps < limit
    /\ mappings' = IF <<agentId, toolName>> \in DOMAIN mappings THEN mappings
                   ELSE With(mappings, <<agentId, toolName>>, keyLabel)
    /\ revoked' = revoked \ {<<agentId, toolName>>}
    /\ outcome' = "ok"
    /\ adminOps' = adminOps + 1
    /\ UNCHANGED <<tokens, secrets, keychain, removed, env, masterKey, auditVars,
                   ctlVars, activeSecrets, exited, closed, memory, call, hist>>

setAgentMapping(agentId, toolName, keyLabel, limit) ==
    /\ adminOps < limit
    /\ mappings' = With(mappings, <<agentId, toolName>>, keyLabel)
    /\ revoked' = revoked \ {<<agentId, toolName>>}
    /\ outcome' = "ok"
    /\ adminOps' = adminOps + 1
    /\ UNCHANGED <<tokens, secrets, keychain, removed, env, masterKey, auditVars,
                   ctlVars, activeSecrets, exited, closed, memory, call, hist>>

\* revokeAgentAccess: a DELETE that changed no row is reported as an error.
revokeAgentAccess(agentId, toolName, limit) ==
    /\ adminOps < limit
    /\ LET found == <<agentId, toolName>> \in DOMAIN mappings
       IN  /\ mappings' = Without(mappings, {<<agentId, toolName>>})
           /\ revoked' = IF found THEN revoked \cup {<<agentId, toolName>>} ELSE revoked
           /\ outcome' = IF found THEN "ok" ELSE "NotFound"
    /\ adminOps' = adminOps + 1
    /\ UNCHANGED <<tokens, secrets, keychain, removed, env, masterKey, auditVars,
                   ctlVars, activeSecrets, exited, closed, memory, call, hist>>

\* A variant that deletes the token row and leaves the mappings.
removeAgentTokenOnly(agentId, limit) ==
    /\ adminOps < limit
    /\ tokens' = Without(tokens, {agentId})
    /\ removed' = removed \cup {tokens[a] : a \in DOMAIN tokens \cap {agentId}}
    /\ outcome' = IF agentId \in DOMAIN tokens THEN "ok" ELSE "NotFound"
    /\ adminOps' = adminOps + 1
    /\ UNCHANGED <<mappings, secrets, keychain, revoked, env, masterKey, auditVars,
                   ctlVars, activeSecrets, exited, closed, memory, call, hist>>

\* removeAgent: the mappings are deleted first, then the token row; the
\* error is raised when no token row was deleted.
removeAgent(agentId, limit) ==
    /\ adminOps < limit
    /\ mappings' = Without(mappings, {p \in DOMAIN mappings : p[1] = agentId})
    /\ tokens' = Without(tokens, {agentId})
    /\ removed' = removed \cup {tokens[a] : a \in DOMAIN tokens \cap {agentId}}
    /\ outcome' = IF agentId \in DOMAIN tokens THEN "ok" ELSE "NotFound"
    /\ adminOps' = adminOps + 1
    /\ UNCHANGED <<secrets, keychain, revoked, env, masterKey, auditVars,
                   ctlVars, activeSecrets, exited, closed, memory, call, hist>>

\* A variant that inserts without replacing a record that is already there.
setSecretKeepFirst(toolName, secretValue, keyLabel, limit) ==
    /\ adminOps < limit
    /\ keychain # 0
    /\ secrets' = IF <<toolName, keyLabel>> \in DOMAIN secrets THEN secrets
                  ELSE With(secrets, <<toolName, keyLabel>>,
                            [plaintext |-> secretValue, key |-> keychain])
    /\ outcome' = "ok"
    /\ adminOps' = adminOps + 1
    /\ UNCHANGED <<tokens, mappings, keychain, revoked, removed, env, masterKey,
                   auditVars, ctlVars, activeSecrets, exited, closed, memory,
                   call, hist>>

\* setSecret on a fresh handle: encrypt reads the key from the keychain and
\* fails when there is none.
setSecret(toolName, secretValue, keyLabel, limit) ==
    /\ adminOps < limit
    /\ secrets' = IF keychain = 0 THEN secrets
                  ELSE With(secrets, <<toolName, keyLabel>>,
                            [plaintext |-> secretValue, key |-> keychain])
    /\ outcome' = IF keychain = 0 THEN "NotInitialized" ELSE "ok"
    /\ adminOps' = adminOps + 1
    /\ UNCHANGED <<tokens, mappings, keychain, revoked, removed, env, masterKey,
                   auditVars, ctlVars, activeSecrets, exited, closed, memory,
                   call, hist>>

(***************************************************************************)
(* The master key's life (src/src/vault/store.ts, src/src/cli.ts): init,   *)
(* reset, clear and nuke, each run by a CLI process with a handle of its   *)
(* own, which therefore has no key cached when the command starts.         *)
(***************************************************************************)
Max(S) == CHOOSE x \in S : \A y \in S : y <= x

\* Every master key that is stored, cached or written into a record.
KeysInUse ==
    {keychain, masterKey} \cup {secrets[p].key : p \in DOMAIN secrets} \cup memory

\* randomBytes(32): a key that is no key generated before.
randomBytes == Max(KeysInUse \cup {0}) + 1

\* initializeMasterKey up to its first await: the keychain is read, and a
\* key that is found ends the command with its error.
InitRead(p, limit) ==
    /\ adminOps < limit
    /\ initPc[p] # "write"
    /\ initPc' = [initPc EXCEPT ![p] = IF keychain # 0 THEN "failed" ELSE "write"]
    /\ outcome' = IF keychain # 0 THEN "AlreadyInitialized" ELSE outcome
    /\ adminOps' = adminOps + 1
    /\ UNCHANGED <<tokens, mappings, secrets, keychain, revoked, removed, env,
                   masterKey, auditVars, listed, inits, activeSecrets, exited,
                   closed, memory, call, hist>>

\* initializeMasterKey after the read found nothing: a new key is generated
\* and keytar.setPassword stores it, in place of whatever is there by now.
InitWrite(p) ==
    /\ initPc[p] = "write"
    /\ keychain' = randomBytes
    /\ inits' = inits + 1
    /\ initPc' = [initPc EXCEPT ![p] = "done"]
    /\ outcome' = "ok"
    /\ UNCHANGED <<tokens, mappings, secrets, revoked, removed, adminOps, env,
                   masterKey, auditVars, listed, activeSecrets, exited, closed,
                   memory, call, hist>>

\* What deleteMasterKey hands back when keytar.deletePassword answered
\* found: the promise resolves to undefined either way.
deleteMasterKeyResult(found) == "ok"

\* pincer reset: deleteMasterKey, then close, on a fresh handle.
deleteMasterKey(limit) ==
    /\ adminOps < limit
    /\ keychain' = 0
    /\ inits' = 0
    /\ outcome' = deleteMasterKeyResult(keychain # 0)
    /\ memory' = memory \cup dropMasterKey(0).dropped \cup close(0).dropped
    /\ adminOps' = adminOps + 1
    /\ UNCHANGED <<tokens, mappings, secrets, revoked, removed, env, masterKey,
                   auditVars, listed, initPc, activeSecrets, exited, closed,
                   call, hist>>

\* A variant of clear that deletes the master key with the tables.
deleteAllSecretsAndKey(limit) ==
    /\ adminOps < limit
    /\ secrets' = Without(secrets, DOMAIN secrets)
    /\ tokens' = Without(tokens, DOMAIN tokens)
    /\ mappings' = Without(mappings, DOMAIN mappings)
    /\ removed' = removed \cup {tokens[a] : a \in DOMAIN tokens}
    /\ revoked' = revoked \cup DOMAIN mappings
    /\ keychain' = 0
    /\ outcome' = "ok"
    /\ adminOps' = adminOps + 1
    /\ UNCHANGED <<env, masterKey, auditVars, ctlVars, activeSecrets,
                   exited, closed, memory, call, hist>>

\* pincer clear --yes: deleteAllSecrets empties the three tables and keeps
\* the master key.
deleteAllSecrets(limit) ==
    /\ adminOps < limit
    /\ secrets' = Without(secrets, DOMAIN secrets)
    /\ tokens' = Without(tokens, DOMAIN tokens)
    /\ mappings' = Without(mappings, DOMAIN mappings)
    /\ removed' = removed \cup {tokens[a] : a \in DOMAIN tokens}
    /\ revoked' = revoked \cup DOMAIN mappings
    /\ outcome' = "ok"
    /\ adminOps' = adminOps + 1
    /\ UNCHANGED <<keychain, env, masterKey, auditVars, ctlVars, activeSecrets,
                   exited, closed, memory, call, hist>>

\* pincer nuke --yes: nukeVault deletes the master key, closes the handle
\* and unlinks the database file with its tables.
nukeVault(limit) ==
    /\ adminOps < limit
    /\ keychain' = 0
    /\ inits' = 0
    /\ memory' = memory \cup dropMasterKey(0).dropped \cup close(0).dropped
    /\ secrets' = Without(secrets, DOMAIN secrets)
    /\ tokens' = Without(tokens, DOMAIN tokens)
    /\ mappings' = Without(mappings, DOMAIN mappings)
    /\ removed' = removed \cup {tokens[a] : a \in DOMAIN tokens}
    /\ revoked' = revoked \cup DOMAIN mappings
    /\ outcome' = "ok"
    /\ adminOps' = adminOps + 1
    /\ UNCHANGED <<env, masterKey, auditVars, listed, initPc, activeSecrets,
                   exited, closed, call, hist>>

(***************************************************************************)
(* Requests.                                                               *)
(***************************************************************************)
ArgsOf(auth, body) ==
    [k \in ArgKeys |->
        IF k = AuthKey THEN auth
        ELSE IF k = "prompt" /\ body \in {"gemini", "prompt"} THEN Text
        ELSE IF k = "model" /\ body = "gemini" THEN Text
        ELSE IF k = "data" /\ body = "data" THEN Text
        ELSE Absent]

Request(name, meta, auth, body) ==
    [name |-> name, meta |-> meta, args |-> ArgsOf(auth, body)]

\* The requests of the concurrent specification: a valid call with the token
\* in _meta, one with the token in the arguments, one without a token, and
\* one for a tool that has no caller.
ConcRequests ==
    {Request("gemini_generate", Tok(1), Absent, "gemini"),
     Request("gemini_generate", Absent, Tok(1), "gemini"),
     Request("gemini_generate", Absent, Absent, "gemini"),
     Request("gpg_sign_data", Tok(1), Absent, "data")}

\* The requests of the single-call specification: every combination of the
\* token sources, tools and argument shapes.
MetaValues == {Absent, NonString, EmptyStr, Tok(1), Tok(2), ShortTok}
AuthValues == {Absent, NonString, EmptyStr, Tok(1), Tok(2)}
Bodies == {"none", "gemini", "data"}

SoloRequests ==
    {Request(t, m, a, b) : t \in TOOLS, m \in MetaValues, a \in AuthValues, b \in Bodies}

\* Calls are numbered in the order they arrive.
Arrives(c) == \A d \in 1..(c - 1) : call[d].pc # "idle"

\* The commands an operator runs, over the given tools, labels and values.
Admin(limit, tools, labels, values) ==
    \/ addAgent("ops", Tok(2), limit)
    \/ \E a \in AGENTS, l \in labels : setAgentMapping(a, "gemini_generate", l, limit)
    \/ \E t \in tools : revokeAgentAccess("bot", t, limit)
    \/ \E a \in AGENTS : removeAgent(a, limit)
    \/ \E v \in values, l \in labels : setSecret("gemini_api_key", v, l, limit)

Step(c) ==
    \/ CheckAuthorized(c)
    \/ Inject(c)
    \/ \E reply \in UpstreamReplies : Execute(c, reply)
    \/ Wake(c)
    \/ Finish(c)
    \/ Return(c)
    \/ Throw(c)

(***************************************************************************)
(* Spec: concurrent calls of one gateway, the CLI and shutdown.            *)
(***************************************************************************)
Next ==
    \/ \E c \in Calls, request \in ConcRequests : Arrives(c) /\ CallTool(c, request)
    \/ \E c \in Calls : Step(c)
    \/ Admin(MaxAdminOps, {"gemini_generate"}, {"default"}, {<<"B", "C">>, << >>})
    \/ Shutdown

Spec == Init /\ [][Next]_vars

(***************************************************************************)
(* SpecSolo: one call at a time, with every request shape and every value  *)
(* of the environment variable.                                            *)
(***************************************************************************)
InitSolo == InitWith(EnvTokens, {<<"A">>})

NextSolo ==
    \/ \E request \in SoloRequests : CallTool(1, request)
    \/ Step(1)
    \/ Admin(MaxSoloAdminOps, TOOLS, LABELS, SecretValues)
    \/ Shutdown

SpecSolo == InitSolo /\ [][NextSolo]_vars

(***************************************************************************)
(* SpecRetry: callers driven directly, as the caller tests do               *)
(* (src/tests/signing.test.ts): execute is handed an enriched request and   *)
(* its result goes back to the test.                                        *)
(***************************************************************************)
RetryInvocations ==
    {<<"gemini_generate", "gemini">>, <<"gemini_generate", "none">>,
     <<"gpg_sign_data", "data">>}

RetryReplies ==
    [status : {200, 400, 401, 403, 500}, echo : {FALSE},
     says : {"", "Unauthorized", "FORBIDDEN"}]

\* caller.execute(request) on a request built by the test.
Invoke(c, toolName, body) ==
    /\ ~exited
    /\ call[c].pc = "idle"
    /\ LET request == Request(toolName, Absent, Absent, body)
       IN  /\ call' = [call EXCEPT ![c] =
                          [IdleCall EXCEPT !.pc = "exec", !.request = request,
                                           !.enriched = Enrich(<<"A">>, "bot")]]
           /\ hist' = [hist EXCEPT ![c].request = request]
    /\ UNCHANGED <<vaultVars, auditVars, env, masterKey, activeSecrets, exited,
                   closed, memory>>

\* One attempt of BaseCaller.execute; the result or the error goes to the
\* test that called it.
ExecuteDirect(c, reply) ==
    /\ ~exited
    /\ call[c].pc = "exec"
    /\ LET rec == call[c]
           t == rec.request.name
           r == executeInternalOf(t, rec.enriched, rec.request.args, reply)
           x == executeLoop(rec, r, maxRetriesOf(t))
       IN  /\ hist' = [hist EXCEPT ![c].executes = @ + 1,
                                   ![c].callerSaw = rec.request.args]
           /\ call' = [call EXCEPT ![c] =
                IF x.outcome = "return" THEN [x.rec EXCEPT !.pc = "returned"]
                ELSE IF x.outcome = "sleep" THEN [x.rec EXCEPT !.pc = "backoff"]
                ELSE [x.rec EXCEPT !.pc = "thrown", !.error = x.error]]
    /\ UNCHANGED <<vaultVars, auditVars, env, masterKey, activeSecrets, exited,
                   closed, memory>>

NextRetry ==
    \/ \E c \in Calls, i \in RetryInvocations : Arrives(c) /\ Invoke(c, i[1], i[2])
    \/ \E c \in Calls, reply \in RetryReplies : ExecuteDirect(c, reply)
    \/ \E c \in Calls : Wake(c)

SpecRetry == Init /\ [][NextRetry]_vars

(***************************************************************************)
(* SpecVault: sequences of CLI commands on the vault, with every agent id, *)
(* token, tool, label and value the commands can be given.                 *)
(***************************************************************************)
VaultAgentIds == AGENTS \cup {""}
VaultTokens == {Tok(1), Tok(2), Tok(3)}
VaultTools == {"gemini_generate", "slack_send_message"}
VaultSecretNames == {getSecretKeyForTool(t) : t \in VaultTools}

NextVault ==
    \/ \E a \in VaultAgentIds, t \in VaultTokens : addAgent(a, t, MaxVaultOps)
    \/ \E a \in AGENTS, t \in VaultTools, l \in LABELS :
          setAgentMapping(a, t, l, MaxVaultOps)
    \/ \E a \in AGENTS, t \in VaultTools : revokeAgentAccess(a, t, MaxVaultOps)
    \/ \E a \in VaultAgentIds : removeAgent(a, MaxVaultOps)
    \/ \E n \in VaultSecretNames, v \in SecretValues, l \in LABELS :
          setSecret(n, v, l, MaxVaultOps)

SpecVault == Init /\ [][NextVault]_vars

(***************************************************************************)
(* SpecKeys: the commands that make, use and destroy the master key, run   *)
(* by an operator in any order, two init commands possibly at once.        *)
(***************************************************************************)
NextKeys ==
    \/ \E p \in InitCommands : InitRead(p, MaxKeyOps)
    \/ \E p \in InitCommands : InitWrite(p)
    \/ \E v \in {<<"A">>, <<"B", "C">>}, l \in LABELS :
          setSecret("gemini_api_key", v, l, MaxKeyOps)
    \/ deleteMasterKey(MaxKeyOps)
    \/ deleteAllSecrets(MaxKeyOps)
    \/ nukeVault(MaxKeyOps)

SpecKeys == Init /\ [][NextKeys]_vars

(***************************************************************************)
(* SpecHandle: one VaultStore handle driven through its methods, as the    *)
(* vault tests drive theirs (src/tests/signing.test.ts): the handle stays  *)
(* open over several calls and caches the master key at its first          *)
(* encryption.  masterKey is this handle's cache, closed tells whether the *)
(* handle was closed.                                                      *)
(***************************************************************************)
TestHandle == "vault"

\* vault.setSecret: encrypt takes the cached key, or reads the keychain and
\* caches what it finds.
handleSetSecret(toolName, secretValue, keyLabel) ==
    /\ adminOps < MaxHandleOps
    /\ TestHandle \notin closed
    /\ LET m == getMasterKey(masterKey, keychain)
           encrypts == m.ok /\ KeyBytes(m.key) = KeyLength
       IN  /\ masterKey' = m.cache
           /\ secrets' = IF ~encrypts THEN secrets
                         ELSE With(secrets, <<toolName, keyLabel>>,
                                   [plaintext |-> secretValue, key |-> m.key])
           /\ outcome' = IF ~m.ok THEN m.error.kind
                         ELSE IF ~encrypts THEN "CipherKeyLength" ELSE "ok"
    /\ adminOps' = adminOps + 1
    /\ UNCHANGED <<tokens, mappings, keychain, revoked, removed, env, auditVars,
                   ctlVars, activeSecrets, exited, closed, memory, call, hist>>

\* vault.deleteMasterKey.
handleDeleteMasterKey ==
    /\ adminOps < MaxHandleOps
    /\ TestHandle \notin closed
    /\ keychain' = 0
    /\ inits' = 0
    /\ masterKey' = dropMasterKey(masterKey).masterKey
    /\ memory' = memory \cup dropMasterKey(masterKey).dropped
    /\ outcome' = deleteMasterKeyResult(keychain # 0)
    /\ adminOps' = adminOps + 1
    /\ UNCHANGED <<tokens, mappings, secrets, revoked, removed, env, auditVars,
                   listed, initPc, activeSecrets, exited, closed, call, hist>>

\* vault.nukeVault: deleteMasterKey, close, then the database file is
\* unlinked.
handleNukeVault ==
    /\ adminOps < MaxHandleOps
    /\ TestHandle \notin closed
    /\ keychain' = 0
    /\ inits' = 0
    /\ LET dropped == dropMasterKey(masterKey)
       IN  /\ masterKey' = close(dropped.masterKey).masterKey
           /\ memory' = memory \cup dropped.dropped \cup close(dropped.masterKey).dropped
    /\ closed' = closed \cup {TestHandle}
    /\ secrets' = Without(secrets, DOMAIN secrets)
    /\ tokens' = Without(tokens, DOMAIN tokens)
    /\ mappings' = Without(mappings, DOMAIN mappings)
    /\ removed' = removed \cup {tokens[a] : a \in DOMAIN tokens}
    /\ revoked' = revoked \cup DOMAIN mappings
    /\ outcome' = "ok"
    /\ adminOps' = adminOps + 1
    /\ UNCHANGED <<env, auditVars, listed, initPc, activeSecrets, exited, call, hist>>

\* vault.close.
handleClose ==
    /\ adminOps < MaxHandleOps
    /\ TestHandle \notin closed
    /\ masterKey' = close(masterKey).masterKey
    /\ memory' = memory \cup close(masterKey).dropped
    /\ closed' = closed \cup {TestHandle}
    /\ outcome' = "ok"
    /\ adminOps' = adminOps + 1
    /\ UNCHANGED <<tokens, mappings, secrets, keychain, revoked, removed, env,
                   auditVars, ctlVars, activeSecrets, exited, call, hist>>

\* new VaultStore(): a handle without a cached key.
handleOpen ==
    /\ TestHandle \in closed
    /\ closed' = closed \ {TestHandle}
    /\ masterKey' = 0
    /\ UNCHANGED <<vaultVars, auditVars, env, activeSecrets, exited, memory, call, hist>>

NextHandle ==
    \/ \E v \in {<<"A">>, <<"B", "C">>}, l \in LABELS :
          handleSetSecret("gemini_api_key", v, l)
    \/ handleDeleteMasterKey
    \/ handleNukeVault
    \/ handleClose
    \/ handleOpen
    \/ InitRead(1, MaxHandleOps)
    \/ InitWrite(1)

SpecHandle == Init /\ [][NextHandle]_vars

(***************************************************************************)
(* SpecOps: a gateway that serves one call at a time and tool listings, is *)
(* stopped and started again, beside an operator who runs the commands     *)
(* that make and destroy keys and data.  nuke unlinks the database file,   *)
(* which a running gateway would keep open, so it is run while the gateway *)
(* is down.                                                                *)
(***************************************************************************)
OkReply == [status |-> 200, echo |-> FALSE, says |-> ""]

OpsRequests ==
    {Request("gemini_generate", Tok(1), Absent, "gemini"),
     Request("gemini_generate", Absent, Absent, "gemini")}

NextOps ==
    \/ \E request \in OpsRequests : CallTool(1, request)
    \/ CheckAuthorized(1)
    \/ Inject(1)
    \/ \E reply \in {OkReply} : Execute(1, reply)
    \/ Finish(1)
    \/ Return(1)
    \/ Throw(1)
    \/ \E request \in ListRequests : ListTools(request)
    \/ Shutdown
    \/ Start
    \/ \E p \in InitCommands : InitRead(p, MaxOpsCommands)
    \/ \E p \in InitCommands : InitWrite(p)
    \/ deleteMasterKey(MaxOpsCommands)
    \/ deleteAllSecrets(MaxOpsCommands)
    \/ exited /\ nukeVault(MaxOpsCommands)

SpecOps == Init /\ [][NextOps]_vars

(***************************************************************************)
(* SpecRestart: a gateway started over a log file that is absent, empty,   *)
(* written by an earlier run, or ends in a line that log() did not write;  *)
(* it serves a call, is stopped and is started again.                      *)
(***************************************************************************)
\* The entry an earlier run left in the file.
EarlierEntry == LogEntry(AuditEvent("bot", "gemini_generate", "success", NoMsg, 0), GenesisHash)

LogFiles ==
    {[exists |-> FALSE, lines |-> << >>],
     [exists |-> TRUE, lines |-> << >>],
     [exists |-> TRUE, lines |-> <<EarlierEntry>>],
     [exists |-> TRUE, lines |-> <<EarlierEntry, GarbageLine>>],
     [exists |-> TRUE, lines |-> <<EarlierEntry, NullLine>>],
     [exists |-> TRUE, lines |-> <<EarlierEntry, BareLine>>]}

InitRestart ==
    /\ tokens = S1Tokens
    /\ mappings = S1Mappings
    /\ secrets = S1Secrets(<<"A">>)
    /\ keychain = 1
    /\ env = Absent
    /\ masterKey = 0
    /\ lastHash = GenesisHash
    /\ \E file \in LogFiles : log = file.lines /\ logExists = file.exists
    /\ activeSecrets = {}
    /\ exited = TRUE
    /\ call = [c \in Calls |-> IdleCall]
    /\ hist = [c \in Calls |-> NoHist]
    /\ revoked = {}
    /\ removed = {}
    /\ adminOps = 0
    /\ outcome = "none"
    /\ closed = GatewayHandles
    /\ memory = {}
    /\ listed = NoListing
    /\ initPc = [p \in InitCommands |-> "idle"]
    /\ inits = 1
    /\ writable = TRUE
    /\ peerLastHash = GenesisHash

NextRestart ==
    \/ Start
    \/ \E request \in OpsRequests : CallTool(1, request)
    \/ CheckAuthorized(1)
    \/ Inject(1)
    \/ \E reply \in {OkReply} : Execute(1, reply)
    \/ Finish(1)
    \/ Return(1)
    \/ Throw(1)
    \/ Shutdown

SpecRestart == InitRestart /\ [][NextRestart]_vars

(***************************************************************************)
(* SpecInject: two agents with their own key labels for one tool; calls of *)
(* both, while the operator rewrites secrets and mappings.                 *)
(***************************************************************************)
S2Tokens == [a \in AGENTS |-> IF a = "bot" THEN Tok(1) ELSE Tok(2)]
S2Mappings == With(S1Mappings, <<"ops", "gemini_generate">>, "prod")
S2Secrets ==
    [p \in {"gemini_api_key"} \X LABELS |->
        [plaintext |-> IF p[2] = "default" THEN <<"A">> ELSE <<"B", "C">>, key |-> 1]]

InitInject ==
    /\ tokens = S2Tokens
    /\ mappings = S2Mappings
    /\ secrets = S2Secrets
    /\ keychain = 1
    /\ env = Absent
    /\ masterKey = 0
    /\ lastHash = GenesisHash
    /\ log = << >>
    /\ activeSecrets = {}
    /\ exited = FALSE
    /\ call = [c \in Calls |-> IdleCall]
    /\ hist = [c \in Calls |-> NoHist]
    /\ revoked = {}
    /\ removed = {}
    /\ adminOps = 0
    /\ outcome = "none"
    /\ InitRest

InjectRequests ==
    {Request("gemini_generate", Tok(1), Absent, "gemini"),
     Request("gemini_generate", Tok(2), Absent, "gemini")}

NextInject ==
    \/ \E c \in Calls, request \in InjectRequests : Arrives(c) /\ CallTool(c, request)
    \/ \E c \in Calls : CheckAuthorized(c)
    \/ \E c \in Calls : Inject(c)
    \/ \E c \in Calls : Execute(c, OkReply)
    \/ \E c \in Calls : Wake(c)
    \/ \E c \in Calls : Finish(c)
    \/ \E c \in Calls : Return(c)
    \/ \E c \in Calls : Throw(c)
    \/ \E v \in SecretValues, l \in LABELS : setSecret("gemini_api_key", v, l, MaxAdminOps)
    \/ \E a \in AGENTS, l \in LABELS : setAgentMapping(a, "gemini_generate", l, MaxAdminOps)

SpecInject == InitInject /\ [][NextInject]_vars

(***************************************************************************)
(* Properties.                                                             *)
(***************************************************************************)
Exited(c) == call[c].pc \in {"returned", "thrown"}
HoldsKey(c) ==
    /\ call[c].enriched.present
    /\ call[c].enriched.hasKey
    /\ call[c].enriched.apiKey # << >>
EntriesOf(c) == {i \in DOMAIN log : log[i].call = c}

\* C1: every exit of callTool, by return or by rethrow, leaves the enriched
\* request it created scrubbed: no finished call still holds its apiKey.
C1_ScrubOnEveryExit ==
    \A c \in Calls : Exited(c) => ~HoldsKey(c)

\* C2: the process never exits on a shutdown signal while a call holds an
\* enriched request whose apiKey has not been scrubbed.
C2_ShutdownScrubs ==
    exited => \A c \in Calls : ~HoldsKey(c)

\* C3: a secret is read (getSecret), an enriched request made or a caller
\* executed only for a call whose token passed the format check and resolved
\* to a registered agent, whose agent had a mapping for the tool when the
\* authorization check ran, whose arguments passed validation and whose tool
\* has a registered caller.
C3_OnlyVettedCallsReachSecrets ==
    \A c \in Calls :
        (hist[c].getSecrets > 0 \/ hist[c].executes > 0 \/ call[c].enriched.present)
            => {"format", "resolved", "mapped", "validated", "caller"} \subseteq hist[c].facts

C3_Witness ==
    \E c \in Calls : hist[c].getSecrets > 0 /\ hist[c].executes > 0 /\ Exited(c)

\* C4: the first entry of the log has prevHash equal to the genesis hash and
\* every later entry's prevHash is the chainHash of the entry before it,
\* whatever the interleaving of the calls that wrote them.
C4_ChainInvariant ==
    /\ log # << >> => log[1].prevHash = GenesisHash
    /\ \A i \in 2..Len(log) : log[i].prevHash = log[i - 1].chainHash

C4_Witness ==
    /\ Len(log) >= 2
    /\ log[1].call = 2
    /\ log[2].call = 1
    /\ log[1].status = "success"

\* C5: a call appends at most one audit entry and has appended exactly one
\* when it returns or rethrows; the entry says "success" exactly when the
\* call returns a response, and then it was appended after the scrub; it
\* says "error" with the message of the error the call rethrows otherwise.
C5_OneEntryPerCall ==
    \A c \in Calls :
        /\ Cardinality(EntriesOf(c)) <= 1
        /\ call[c].pc \in {"logged", "returned", "thrown"} => Cardinality(EntriesOf(c)) = 1
        /\ \A i \in EntriesOf(c) :
            /\ call[c].pc = "returned" =>
                 log[i].status = "success" /\ call[c].response # NoResponse
            /\ call[c].pc = "thrown" =>
                 log[i].status = "error" /\ log[i].error = call[c].error
                    /\ call[c].error # NoMsg
            /\ log[i].status = "success" =>
                 /\ call[c].error = NoMsg
                 /\ hist[c].scrubs > 0
                 /\ ~HoldsKey(c)
            /\ log[i].status = "error" => call[c].error # NoMsg

C5_Witness ==
    \E c, d \in Calls :
        /\ call[c].pc = "returned"
        /\ call[d].pc = "thrown"
        /\ call[d].error.kind = "RetryExhausted"

\* C6: a call whose authorization check runs after the mapping was revoked
\* (and not granted again) fails with Forbidden, and a call made with the
\* well-formed token of a removed agent (not registered again) fails with
\* UnknownToken; neither reads a secret nor executes a caller.
C6_RevocationTakesEffect ==
    \A c \in Calls :
        /\ "revoked" \in hist[c].facts =>
             /\ call[c].error.kind = "Forbidden"
             /\ hist[c].getSecrets = 0 /\ hist[c].executes = 0 /\ ~call[c].enriched.present
        /\ {"removed", "format"} \subseteq hist[c].facts =>
             /\ call[c].error.kind = "UnknownToken"
             /\ hist[c].getSecrets = 0 /\ hist[c].executes = 0 /\ ~call[c].enriched.present

C6_Witness ==
    \E c \in Calls :
        /\ "revoked" \in hist[c].facts
        /\ call[c].pc = "thrown"
        /\ call[c].proxyToken = Tok(1)

\* C7: no response a call returns, no error it raises and no audit entry it
\* appends contains the plaintext secret injected for the call.
C7_NoSecretInOutputs ==
    /\ \A c \in Calls :
        /\ call[c].pc = "returned" => hist[c].injected \notin call[c].response.contains
        /\ call[c].pc = "thrown" => hist[c].injected \notin call[c].error.contains
    /\ \A i \in DOMAIN log :
        hist[log[i].call].injected \notin log[i].error.contains

\* C8: once scrubMemory has run on a call's enriched request the request
\* carries no apiKey and is not tracked; scrubbing any request a second time
\* changes nothing.
C8_ScrubRemovesKey ==
    \A c \in Calls :
        /\ hist[c].scrubs > 0 =>
             /\ ~call[c].enriched.hasKey
             /\ call[c].enriched.apiKey = << >>
             /\ c \notin activeSecrets
        /\ call[c].enriched.present =>
             LET once == scrubMemory(call[c].enriched, activeSecrets, c)
                 twice == scrubMemory(once.request, once.active, c)
             IN  twice = once

C8_Witness ==
    \E c \in Calls :
        /\ hist[c].scrubs > 0
        /\ Len(hist[c].injected) = 2
        /\ call[c].pc = "returned"

\* C9: the token authenticated is the one of the highest-priority source
\* that holds a token (_meta.pincer_token, then arguments.__pincer_auth__,
\* then PINCER_PROXY_TOKEN), and MissingToken is raised only when no source
\* holds one.
Holds(v) == v.kind = "string" /\ (v.prefix # "" \/ v.len > 0)

PriorityToken(request, envToken) ==
    IF Holds(request.meta) THEN request.meta
    ELSE IF Holds(request.args[AuthKey]) THEN request.args[AuthKey]
    ELSE IF Holds(envToken) THEN envToken
    ELSE Absent

\* The claim speaks of sources that are absent or hold a string.
Addressed(request, envToken) ==
    \A v \in {request.meta, request.args[AuthKey], envToken} :
        v.kind \in {"absent", "string"}

C9_TokenPriority ==
    \A c \in Calls :
        (call[c].pc # "idle" /\ Addressed(hist[c].request, env)) =>
            LET expected == PriorityToken(hist[c].request, env)
            IN  /\ expected # Absent => call[c].proxyToken = expected
                /\ call[c].error.kind = "MissingToken" <=> expected = Absent

\* C10: when the token is taken from arguments.__pincer_auth__, that key is
\* gone from the arguments map when authenticate is over, the validator and
\* the caller see a map without it, and every other key is as it was sent.
FromArguments(request) ==
    /\ ~(request.meta.kind # "absent" /\ request.meta.kind = "string")
    /\ request.args[AuthKey].kind # "absent"

C10_AuthKeyStripped ==
    \A c \in Calls :
        (call[c].pc # "idle" /\ FromArguments(hist[c].request)) =>
            /\ call[c].request.args[AuthKey] = Absent
            /\ hist[c].validatorSaw[AuthKey] = Absent
            /\ hist[c].callerSaw[AuthKey] = Absent
            /\ \A k \in ArgKeys \ {AuthKey} :
                 call[c].request.args[k] = hist[c].request.args[k]

C10_Witness ==
    \E c \in Calls :
        /\ FromArguments(hist[c].request)
        /\ hist[c].request.args[AuthKey] = Tok(1)
        /\ hist[c].executes > 0
        /\ hist[c].callerSaw["prompt"] = Text

\* C11: the audit entry of a call that failed inside authenticate (no token,
\* bad format, unknown token, tool not authorized) has agentId "unknown";
\* the entry of a call that failed after authenticate succeeded has the id of
\* the agent its token resolved to.
Authenticated(c) == {"format", "resolved", "mapped"} \subseteq hist[c].facts

C11_AgentIdInAudit ==
    \A i \in DOMAIN log :
        LET c == log[i].call
        IN  log[i].status = "error" =>
              IF Authenticated(c)
              THEN /\ log[i].agentId = call[c].authAgent
                   /\ log[i].agentId \in AGENTS
              ELSE log[i].agentId = UnknownAgent

C11_Witness ==
    \E i, j \in DOMAIN log :
        /\ log[i].error.kind = "Forbidden"
        /\ log[i].agentId = UnknownAgent
        /\ log[j].error.kind \in {"NoCaller", "Upstream"}
        /\ log[j].agentId = "bot"

\* C12: execute makes at most maxRetries attempts (3, SigningCaller 1) and
\* stops at the first success; after failed attempt k that is not the last
\* it sleeps 1000 * 2^k ms, it never sleeps after the last attempt, and when
\* every attempt failed it raises the compound error with the last message.
RetryLimit(c) == IF call[c].request.name = "gpg_sign_data" THEN 1 ELSE 3

NamesAuthFailure(error) ==
    \/ error.status \in {401, 403}
    \/ error.says \in {"Unauthorized", "FORBIDDEN"}

C13_AuthErrorStopsRetry ==
    \A c \in Calls :
        NamesAuthFailure(call[c].lastError) =>
            /\ call[c].pc = "thrown"
            /\ call[c].error = call[c].lastError
            /\ Len(call[c].sleeps) = hist[c].executes - 1

C13_Witness ==
    \E c \in Calls :
        /\ call[c].pc = "thrown"
        /\ call[c].error.says = "FORBIDDEN"
        /\ call[c].error.status = 500
        /\ hist[c].executes = 2

\* C14: after an attempt that failed with 400 Bad Request (and no word of
\* an auth failure) execute makes no further attempt and does not sleep.
C14_BadRequestNotRetried ==
    \A c \in Calls :
        (call[c].lastError.status = 400 /\ call[c].lastError.says = "") =>
            /\ call[c].pc = "thrown"
            /\ Len(call[c].sleeps) = hist[c].executes - 1

\* C15: with the master key unchanged, getSecret(tool, label) after a
\* setSecret(tool, value, label) returns that value, every other pair reads
\* as before, no other command changes what a pair reads, and a pair that
\* has no record fails with SecretMissing.
ReadSecret(rows, pair) == getSecret(rows, pair[1], pair[2], keychain)
SecretPairs == VaultSecretNames \X LABELS

C15_LastWriteWins ==
    /\ [](\A q \in SecretPairs :
            q \notin DOMAIN secrets => ReadSecret(secrets, q).error.kind = "SecretMissing")
    /\ [][/\ \A n \in VaultSecretNames, l \in LABELS, v \in SecretValues :
              setSecret(n, v, l, MaxVaultOps) =>
                /\ ReadSecret(secrets', <<n, l>>).ok
                /\ ReadSecret(secrets', <<n, l>>).value = v
                /\ \A q \in SecretPairs \ {<<n, l>>} :
                      ReadSecret(secrets', q) = ReadSecret(secrets, q)
          /\ (\A n \in VaultSecretNames, l \in LABELS, v \in SecretValues :
                ~setSecret(n, v, l, MaxVaultOps)) =>
                \A q \in SecretPairs : ReadSecret(secrets', q) = ReadSecret(secrets, q)
         ]_vars

C15_Witness ==
    /\ ReadSecret(secrets, <<"gemini_api_key", "default">>).value = <<"B", "C">>
    /\ ReadSecret(secrets, <<"gemini_api_key", "prod">>).ok
    /\ ReadSecret(secrets, <<"gemini_api_key", "prod">>).value = << >>
    /\ ~ReadSecret(secrets, <<"slack_token", "default">>).ok

\* C18: after any sequence of addAgent and removeAgent no two token records
\* share an agent id or a token, getAgentByProxyToken(T) returns the agent
\* registered with T, and an addAgent whose id or token is already there
\* fails with a conflict and changes no record.
TokensUnique ==
    \A a, b \in DOMAIN tokens : a # b => tokens[a] # tokens[b]

TokensResolve ==
    \A a \in DOMAIN tokens : getAgentByProxyToken(tokens, tokens[a]) = a

ConflictChangesNothing ==
    \A a \in VaultAgentIds, t \in VaultTokens :
        (addAgent(a, t, MaxVaultOps)
           /\ (a \in DOMAIN tokens \/ \E b \in DOMAIN tokens : tokens[b] = t)) =>
            /\ outcome' = "Conflict"
            /\ tokens' = tokens /\ mappings' = mappings /\ secrets' = secrets

C18_TokenRecords ==
    /\ [](TokensUnique /\ TokensResolve)
    /\ [][ConflictChangesNothing]_vars

\* C19: after setAgentMapping(A, tool, L) the agent is authorized and its
\* label is L, one mapping per pair; after revokeAgentAccess(A, tool) it is
\* not authorized; a revoke of a mapping that is not there fails with
\* NotFound and changes nothing; neither changes the mapping of another pair.
OtherMappingsKept(pair) ==
    \A q \in (DOMAIN mappings \cup DOMAIN mappings') \ {pair} :
        /\ q \in DOMAIN mappings /\ q \in DOMAIN mappings'
        /\ mappings'[q] = mappings[q]

AuthorizeSets ==
    \A a \in AGENTS, t \in VaultTools, l \in LABELS :
        setAgentMapping(a, t, l, MaxVaultOps) =>
            /\ isAgentAuthorized(mappings', a, t)
            /\ getAgentKeyLabel(mappings', a, t) = l
            /\ OtherMappingsKept(<<a, t>>)

RevokeClears ==
    \A a \in AGENTS, t \in VaultTools :
        revokeAgentAccess(a, t, MaxVaultOps) =>
            /\ ~isAgentAuthorized(mappings', a, t)
            /\ OtherMappingsKept(<<a, t>>)
            /\ IF isAgentAuthorized(mappings, a, t)
               THEN outcome' = "ok"
               ELSE outcome' = "NotFound" /\ mappings' = mappings

C19_AuthorizeRevoke == [][AuthorizeSets /\ RevokeClears]_vars

C19_Witness ==
    /\ outcome = "NotFound"
    /\ getAgentKeyLabel(mappings, "bot", "gemini_generate") = "prod"
    /\ isAgentAuthorized(mappings, "bot", "slack_send_message")
    /\ ~isAgentAuthorized(mappings, "ops", "gemini_generate")
    /\ "ops" \in DOMAIN tokens

\* C20: after a removeAgent(A) that succeeded, A's former token resolves to
\* no agent and A is authorized for no tool; the token records and the
\* mappings of every other agent and all secret records are as before.
RemoveCascades ==
    \A a \in VaultAgentIds :
        (removeAgent(a, MaxVaultOps) /\ outcome' = "ok") =>
            /\ a \in DOMAIN tokens
            /\ getAgentByProxyToken(tokens', tokens[a]) = NoAgent
            /\ \A t \in TOOLS : ~isAgentAuthorized(mappings', a, t)
            /\ \A q \in DOMAIN mappings' : q[1] # a
            /\ DOMAIN tokens' = DOMAIN tokens \ {a}
            /\ \A b \in DOMAIN tokens' : tokens'[b] = tokens[b]
            /\ \A q \in DOMAIN mappings :
                  q[1] # a => q \in DOMAIN mappings' /\ mappings'[q] = mappings[q]
            /\ DOMAIN mappings' \subseteq DOMAIN mappings
            /\ secrets' = secrets

C20_RemoveAgent == [][RemoveCascades]_vars

C20_Witness ==
    /\ outcome = "ok"
    /\ "bot" \notin DOMAIN tokens
    /\ \A q \in DOMAIN mappings : q[1] # "bot"
    /\ "ops" \in DOMAIN tokens
    /\ isAgentAuthorized(mappings, "ops", "gemini_generate")

\* C16: the apiKey put into the enriched request of a call by agent A for
\* tool T is the stored plaintext of the secret named for T under the label
\* of A's mapping for T, and that is the key the caller holds on every
\* attempt; agents mapped to different labels get their own label's secret.
StatedSecretName(t) ==
    IF t = "gemini_generate" THEN "gemini_api_key"
    ELSE IF t = "slack_send_message" THEN "slack_token" ELSE t

InjectsMappedSecret ==
    \A c \in Calls :
        (call[c].pc = "inject" /\ call'[c].pc = "exec") =>
            LET a == call[c].agentId
                t == call[c].request.name
            IN  /\ call'[c].enriched.agentId = a
                /\ <<a, t>> \in DOMAIN mappings =>
                      call'[c].enriched.apiKey =
                          secrets[<<StatedSecretName(t), mappings[<<a, t>>]>>].plaintext

CallerHoldsInjected ==
    \A c \in Calls :
        call[c].pc \in {"exec", "backoff"} =>
            /\ call[c].enriched.hasKey
            /\ call[c].enriched.apiKey = hist[c].injected

C16_InjectedSecret == []CallerHoldsInjected /\ [][InjectsMappedSecret]_vars

C16_Witness ==
    \E c, d \in Calls :
        /\ call[c].pc = "returned" /\ call[c].agentId = "bot"
        /\ hist[c].injected = <<"A">> /\ hist[c].executes = 1
        /\ call[d].pc = "returned" /\ call[d].agentId = "ops"
        /\ hist[d].injected = <<"B", "C">> /\ hist[d].executes = 1
        /\ adminOps = 0

\* C17: when a call of an authorized agent passes validation and caller
\* lookup and its mapping names a (secret name, key label) with no record,
\* the call fails with SecretMissing, no caller runs, no enriched request
\* exists, and exactly one error entry with the agent's id is appended.
MappedSecretAbsent(c) ==
    LET a == call[c].agentId
        t == call[c].request.name
    IN  /\ <<a, t>> \in DOMAIN mappings
        /\ <<StatedSecretName(t), mappings[<<a, t>>]>> \notin DOMAIN secrets

MissingSecretFails ==
    \A c \in Calls :
        (/\ call[c].pc = "inject"
         /\ call'[c].pc # "inject"
         /\ validate(call[c].request.name, call[c].request.args) = NoMsg
         /\ getCaller(call[c].request.name) = NoMsg
         /\ MappedSecretAbsent(c)) =>
            /\ call'[c].pc = "logged"
            /\ call'[c].error.kind = "SecretMissing"
            /\ ~call'[c].enriched.present
            /\ activeSecrets' = activeSecrets
            /\ hist'[c].executes = 0
            /\ Len(log') = Len(log) + 1
            /\ log'[Len(log')].status = "error"
            /\ log'[Len(log')].agentId = call[c].agentId
            /\ log'[Len(log')].tool = call[c].request.name
            /\ log'[Len(log')].error.kind = "SecretMissing"

SecretMissingIsFinal ==
    \A c \in Calls :
        call[c].error.kind = "SecretMissing" =>
            /\ call[c].pc \in {"logged", "thrown"}
            /\ hist[c].executes = 0
            /\ ~call[c].enriched.present
            /\ Cardinality({i \in 1..Len(log) : log[i].call = c}) = 1
            /\ \A i \in 1..Len(log) :
                  log[i].call = c =>
                      log[i].status = "error" /\ log[i].agentId = call[c].agentId

C17_SecretMissing == []SecretMissingIsFinal /\ [][MissingSecretFails]_vars

C17_Witness ==
    \E c \in Calls :
        /\ call[c].pc = "thrown"
        /\ call[c].error.kind = "SecretMissing"
        /\ call[c].agentId = "bot"
        /\ Authenticated(c)
        /\ <<"bot", "gemini_generate">> \in DOMAIN mappings
        /\ <<"gemini_api_key", mappings[<<"bot", "gemini_generate">>]>> \notin DOMAIN secrets

\* C21: an init that finds a master key in the keychain fails with
\* AlreadyInitialized, no init replaces a stored key, and between two
\* deletions of the key at most one init succeeds, also when two init
\* commands interleave between their keychain read and write.
InitRejectsPresentKey ==
    \A p \in InitCommands :
        (InitRead(p, MaxKeyOps) /\ keychain # 0) =>
            outcome' = "AlreadyInitialized" /\ initPc'[p] = "failed"

StoredKeyNotReplaced == keychain # 0 => keychain' \in {keychain, 0}

C21_InitOnce ==
    /\ [](inits <= 1)
    /\ [][InitRejectsPresentKey /\ StoredKeyNotReplaced]_vars

\* C22: whenever the keychain holds a master key, every secret record in the
\* store was encrypted under that key and decrypts under it.
C22_RecordsDecrypt ==
    keychain # 0 =>
        \A p \in DOMAIN secrets :
            /\ secrets[p].key = keychain
            /\ getSecret(secrets, p[1], p[2], keychain).ok

\* C30: deleteMasterKey succeeds with or without a key in the keychain, and
\* what it hands back differs between a delete that removed a key and one
\* that found none.
DeleteTellsApart ==
    deleteMasterKey(MaxKeyOps) =>
        /\ keychain' = 0
        /\ outcome' \in {deleteMasterKeyResult(TRUE), deleteMasterKeyResult(FALSE)}
        /\ keychain # 0 => outcome' # deleteMasterKeyResult(FALSE)
        /\ keychain = 0 => outcome' # deleteMasterKeyResult(TRUE)

C30_DeleteReports == [][DeleteTellsApart]_vars

\* C23: Pincer.close closes the Gatekeeper's and the injector's vault
\* handles, and close overwrites a cached master key with zeros before it
\* drops it: once the gateway was closed no handle of it holds a master key
\* and no key of it is left in memory.
CloseScrubs ==
    (~exited /\ exited') =>
        /\ closed' = GatewayHandles
        /\ masterKey' = 0
        /\ memory' = memory

ClosedHoldsNoKey == exited => closed = GatewayHandles /\ masterKey = 0 /\ memory = {}

C23_CloseZeroesKey == []ClosedHoldsNoKey /\ [][CloseScrubs]_vars

C23_Witness ==
    /\ exited
    /\ closed = GatewayHandles
    /\ \E c \in Calls : call[c].pc = "returned" /\ hist[c].getSecrets = 1

\* C29: deleteMasterKey and nukeVault overwrite the handle's cached master
\* key with zeros before they drop it, as close does: no step leaves a
\* master key behind in a buffer that was dropped.
DestroyScrubs ==
    (handleDeleteMasterKey \/ handleNukeVault \/ handleClose) =>
        masterKey' = 0 /\ memory' = memory

C29_DestroyZeroesKey == [](memory = {}) /\ [][DestroyScrubs]_vars

\* C24: the audit log only grows: every step of the gateway (calls,
\* listings, stop and start) and of the operator (init, reset, clear, nuke)
\* leaves the entries that were in the log where they were, as a prefix of
\* the log after the step, and the file is never removed.
LogIsPrefix ==
    /\ Len(log) <= Len(log')
    /\ SubSeq(log', 1, Len(log)) = log
    /\ logExists => logExists'

C24_AppendOnly == [][LogIsPrefix]_vars

C24_Witness ==
    /\ Len(log) = 2
    /\ log[1].status = "success"
    /\ log[2].status = "error"
    /\ DOMAIN tokens = {}
    /\ DOMAIN secrets = {}
    /\ keychain = 0

\* C25: listTools answers with the registry's static list whatever the
\* request carries and whatever the vault holds, and changes nothing else:
\* no vault record, no cached key, no audit entry, no call.
ListingIsStatic ==
    \A request \in ListRequests :
        ListTools(request) =>
            /\ listed'.answered
            /\ listed'.tools = getToolSchemas
            /\ UNCHANGED <<tokens, mappings, secrets, keychain, masterKey, memory,
                           lastHash, log, logExists, activeSecrets, call, hist>>

C25_ListTools ==
    /\ [](listed.answered => listed.tools = getToolSchemas)
    /\ [][ListingIsStatic]_vars

C25_Witness ==
    /\ listed.answered
    /\ listed.tools = getToolSchemas
    /\ DOMAIN mappings = {}
    /\ keychain = 0
    /\ ~exited
    /\ log = << >>

\* C27: a starting AuditLogger takes as lastHash the chainHash of the last
\* line of the log file when that line has one, and the genesis hash when
\* the file is absent or empty or its last line cannot be parsed; so the
\* first entry appended after a restart has as prevHash the chainHash of
\* the last entry written before it.
HasChainHash(line) == "chainHash" \in DOMAIN line
LastLine == log[Len(log)]

StartLoadsLastHash ==
    (exited /\ ~exited') =>
        /\ (logExists /\ log # << >> /\ HasChainHash(LastLine)) =>
              lastHash' = LastLine.chainHash
        /\ (~logExists \/ log = << >> \/ LastLine = GarbageLine) =>
              lastHash' = GenesisHash

AppendLinksToLast ==
    Len(log') = Len(log) + 1 =>
        /\ log'[Len(log')].prevHash = lastHash
        /\ (log # << >> /\ HasChainHash(LastLine)) =>
              log'[Len(log')].prevHash = LastLine.chainHash
        /\ (log = << >> \/ LastLine = GarbageLine) =>
              log'[Len(log')].prevHash = GenesisHash

C27_RestartKeepsChain == [][StartLoadsLastHash /\ AppendLinksToLast]_vars

C27_Witness ==
    /\ Len(log) = 2
    /\ log[1].call = 1
    /\ log[2].call = 1
    /\ log[1].prevHash = GenesisHash
    /\ log[2].prevHash = log[1].chainHash
    /\ log[2].prevHash # GenesisHash

\* C28: a removeAgent that fails with NotFound, because the agent has no
\* token record, leaves the secrets, proxy-token and mapping tables as they
\* were, the mappings stored under that agent's id included.
FailedRemoveChangesNothing ==
    \A a \in VaultAgentIds :
        (removeAgent(a, MaxVaultOps) /\ outcome' = "NotFound") =>
            /\ secrets' = secrets
            /\ tokens' = tokens
            /\ mappings' = mappings

C28_RemoveAllOrNothing == [][FailedRemoveChangesNothing]_vars

\* C26: authenticate reports the first failure of a fixed order: no token
\* gives MissingToken; a token that is not pxr_ followed by at least 21
\* URL-safe characters gives BadTokenFormat, without a lookup in the vault;
\* a well-formed token of no agent gives UnknownToken; an agent without a
\* mapping for the tool gives Forbidden.  Validation comes after: a call
\* that fails on its tool or arguments was authenticated, and a call to an
\* unknown tool without a valid token fails with the token's error.
WellFormed(token) ==
    /\ token.kind = "string"
    /\ token.prefix = "pxr_"
    /\ token.len >= 21
    /\ token.urlsafe

TokenErrors == {"MissingToken", "BadTokenFormat", "UnknownToken"}

C26_AuthOrder ==
    \A c \in Calls :
        call[c].pc # "idle" =>
            LET token == call[c].proxyToken
                facts == hist[c].facts
                kind == call[c].error.kind
            IN  /\ ~Truthy(token) => kind = "MissingToken" /\ "lookup" \notin facts
                /\ (Truthy(token) /\ ~WellFormed(token)) =>
                      kind = "BadTokenFormat" /\ "lookup" \notin facts
                /\ (WellFormed(token) /\ "resolved" \notin facts) =>
                      kind = "UnknownToken" /\ "lookup" \in facts
                /\ (WellFormed(token) /\ "resolved" \in facts
                       /\ call[c].pc # "authz" /\ "mapped" \notin facts) =>
                      kind = "Forbidden"
                /\ kind \in {"UnknownTool", "ValidationFailure", "NoCaller"} =>
                      Authenticated(c)
                /\ (call[c].request.name \notin SchemaTools
                       /\ ~(WellFormed(token) /\ "resolved" \in facts)) =>
                      kind \in TokenErrors

C26_Witness ==
    \E c \in Calls :
        /\ call[c].pc = "thrown"
        /\ call[c].request.name = "slack_send_message"
        /\ call[c].proxyToken = ShortTok
        /\ call[c].error.kind = "BadTokenFormat"

\* C31: clear empties the secrets, proxy-token and mapping tables and keeps
\* the keychain's master key, so a setSecret after it succeeds and getSecret
\* returns what was set, without a new init; nuke removes the master key
\* and the database, after which every token lookup and every secret lookup
\* finds nothing and an init that finds no key stores a new one.
KeysTokens == {Tok(1), Tok(2)}
KeysSecretPairs == SecretNames \X LABELS

ClearKeepsKey ==
    deleteAllSecrets(MaxKeyOps) =>
        /\ DOMAIN secrets' = {} /\ DOMAIN tokens' = {} /\ DOMAIN mappings' = {}
        /\ keychain' = keychain
        /\ outcome' = "ok"

RoundTripWorks ==
    \A v \in SecretValues, l \in LABELS :
        (setSecret("gemini_api_key", v, l, MaxKeyOps) /\ keychain # 0) =>
            /\ outcome' = "ok"
            /\ getSecret(secrets', "gemini_api_key", l, keychain').ok
            /\ getSecret(secrets', "gemini_api_key", l, keychain').value = v

DestroyRemovesAll ==
    nukeVault(MaxKeyOps) =>
        /\ keychain' = 0
        /\ \A t \in KeysTokens : getAgentByProxyToken(tokens', t) = NoAgent
        /\ \A a \in AGENTS, t \in TOOLS : ~isAgentAuthorized(mappings', a, t)
        /\ \A q \in KeysSecretPairs, k \in KeysInUse \cup {0} :
              getSecret(secrets', q[1], q[2], k).error.kind = "SecretMissing"

InitFillsEmptyKeychain ==
    \A p \in InitCommands :
        /\ (InitRead(p, MaxKeyOps) /\ keychain = 0) => initPc'[p] = "write"
        /\ InitWrite(p) => outcome' = "ok" /\ keychain' # 0

C31_ClearAndDestroy ==
    [][ClearKeepsKey /\ RoundTripWorks /\ DestroyRemovesAll /\ InitFillsEmptyKeychain]_vars

C31_Witness ==
    /\ adminOps = 2
    /\ DOMAIN tokens = {} /\ DOMAIN mappings = {}
    /\ DOMAIN secrets = {<<"gemini_api_key", "prod">>}
    /\ getSecret(secrets, "gemini_api_key", "prod", keychain).value = <<"B", "C">>
    /\ keychain = 1 /\ inits = 1
    /\ outcome = "ok"

(***************************************************************************)
(* SpecAgents: the operator registers, authorizes and removes agents, with *)
(* generated and with custom tokens (pincer agent add <id> [--token <t>]), *)
(* and the gateway serves a call that presents one of those tokens.        *)
(***************************************************************************)
\* A token of the right length with a '+' in it.
PlusTok == [kind |-> "string", prefix |-> "pxr_", len |-> MinTokenBody, urlsafe |-> FALSE, id |-> 8]

\* `pxr_${nanoid(21)}`: 21 characters of nanoid's URL-safe alphabet, a token
\* that was not handed out before.
nanoid ==
    Tok(Max({0} \cup {tokens[a].id : a \in DOMAIN tokens} \cup {t.id : t \in removed}) + 1)

\* addAgent's first line: customToken || `pxr_${nanoid(21)}`.
proxyTokenFor(customToken) ==
    IF Truthy(customToken) THEN customToken ELSE nanoid

\* The values of --token: not given, a well-formed token, one of 20
\* characters, one with a '+', and plain text.
CustomTokens == {Absent, Tok(2), ShortTok, PlusTok, Text}

\* pincer agent add <agent-id> [--token <token>].
agentAdd(agentId, customToken, limit) ==
    addAgent(agentId, proxyTokenFor(customToken), limit)

AgentsRequests ==
    {Request("gemini_generate", m, Absent, "gemini") : m \in {Tok(1), Tok(2), ShortTok, PlusTok}}

NextAgents ==
    \/ \E a \in AGENTS, t \in CustomTokens : agentAdd(a, t, MaxVaultOps)
    \/ \E a \in AGENTS : setAgentMapping(a, "gemini_generate", "default", MaxVaultOps)
    \/ \E a \in AGENTS : removeAgent(a, MaxVaultOps)
    \/ \E request \in AgentsRequests : CallTool(1, request)
    \/ CheckAuthorized(1)
    \/ Inject(1)
    \/ Execute(1, OkReply)
    \/ Finish(1)
    \/ Return(1)
    \/ Throw(1)

SpecAgents == Init /\ [][NextAgents]_vars

\* C32: every proxy token stored in the vault, generated or custom, is pxr_
\* followed by at least 21 URL-safe characters, so the token of every
\* registered agent passes the Gatekeeper's format check.
C32_StoredTokensWellFormed ==
    \A a \in DOMAIN tokens :
        /\ WellFormed(tokens[a])
        /\ isValidProxyToken(tokens[a])

\* C33: the secret injected for a call of agent A for tool T is the one
\* stored under the label of a mapping (A, T) that exists when
\* injectCredentials reads it: no call is handed a secret, the "default"
\* one least of all, for an agent that holds no mapping for T at that
\* moment, also when a revoke or a new authorize ran after authenticate.
InjectReadsMapping ==
    \A c \in Calls :
        (call[c].pc = "inject" /\ call'[c].pc = "exec") =>
            LET a == call[c].agentId
                t == call[c].request.name
            IN  /\ <<a, t>> \in DOMAIN mappings
                /\ call'[c].enriched.apiKey =
                      secrets[<<getSecretKeyForTool(t), mappings[<<a, t>>]>>].plaintext

C33_InjectNeedsMapping == [][InjectReadsMapping]_vars

\* C34: whichever source supplied the token, a request with both
\* _meta.pincer_token and arguments.__pincer_auth__ included, the arguments
\* map a caller's execute is handed has no key __pincer_auth__.
C34_CallerNeverSeesAuthKey ==
    \A c \in Calls :
        /\ hist[c].executes > 0 => hist[c].callerSaw[AuthKey] = Absent
        /\ call[c].pc \in {"exec", "backoff"} => call[c].request.args[AuthKey] = Absent

\* C35: every agent-tool mapping is of a registered agent: whatever commands
\* ran, the agent id of each mapping has a proxy-token record, and an agent
\* that addAgent has just registered is authorized for no tool.
MappingsOfRegistered ==
    \A p \in DOMAIN mappings : p[1] \in DOMAIN tokens

NewAgentUnauthorized ==
    \A a \in VaultAgentIds, t \in VaultTokens :
        (addAgent(a, t, MaxVaultOps) /\ outcome' = "ok") =>
            \A tool \in TOOLS : ~isAgentAuthorized(mappings', a, tool)

C35_MappingsOfRegisteredAgents ==
    []MappingsOfRegistered /\ [][NewAgentUnauthorized]_vars

(***************************************************************************)
(* SpecReset: a running gateway serves calls one after another or at once  *)
(* while the operator deletes the master key from the keychain and         *)
(* initializes a new one.  The injector's handle stays open throughout.    *)
(***************************************************************************)
NextReset ==
    \/ \E c \in Calls, request \in OpsRequests : Arrives(c) /\ CallTool(c, request)
    \/ \E c \in Calls : CheckAuthorized(c)
    \/ \E c \in Calls : Inject(c)
    \/ \E c \in Calls : Execute(c, OkReply)
    \/ \E c \in Calls : Finish(c)
    \/ \E c \in Calls : Return(c)
    \/ \E c \in Calls : Throw(c)
    \/ deleteMasterKey(MaxOpsCommands)
    \/ \E p \in InitCommands : InitRead(p, MaxOpsCommands)
    \/ \E p \in InitCommands : InitWrite(p)

SpecReset == Init /\ [][NextReset]_vars

\* C36: while the keychain holds no master key, after a reset or a nuke from
\* any process and until the next init, no getSecret on an open handle
\* returns a plaintext: a running gateway whose injector decrypted before
\* the deletion injects no secret after it.
NoDecryptWithoutKey ==
    \A c \in Calls :
        (call[c].pc = "inject" /\ keychain = 0) =>
            /\ call'[c].pc # "exec"
            /\ ~call'[c].enriched.present
            /\ hist'[c].injected = hist[c].injected

C36_DeletedKeyStopsDecryption == [][NoDecryptWithoutKey]_vars

(***************************************************************************)
(* SpecAppend: a gateway whose audit file cannot always be appended to     *)
(* (disk full, permissions changed): appendFileSync throws while the file  *)
(* is not writable.                                                        *)
(***************************************************************************)
\* The file stops being writable, or becomes writable again.
DiskFails ==
    /\ writable
    /\ writable' = FALSE
    /\ UNCHANGED <<vaultVars, lastHash, log, logExists, peerLastHash, env, masterKey,
                   activeSecrets, exited, closed, memory, call, hist>>

DiskRecovers ==
    /\ ~writable
    /\ writable' = TRUE
    /\ UNCHANGED <<vaultVars, lastHash, log, logExists, peerLastHash, env, masterKey,
                   activeSecrets, exited, closed, memory, call, hist>>

NextAppend ==
    \/ \E c \in Calls, request \in OpsRequests : Arrives(c) /\ CallTool(c, request)
    \/ \E c \in Calls : CheckAuthorized(c)
    \/ \E c \in Calls : Inject(c)
    \/ \E c \in Calls : Execute(c, OkReply)
    \/ \E c \in Calls : Finish(c)
    \/ \E c \in Calls : CatchLogFailure(c)
    \/ \E c \in Calls : Return(c)
    \/ \E c \in Calls : Throw(c)
    \/ DiskFails
    \/ DiskRecovers

SpecAppend == Init /\ [][NextAppend]_vars

\* C37: when the append inside log fails, lastHash stays as it was and no
\* entry is written, so lastHash always is the chainHash of the last entry
\* in the file, and the next append that succeeds writes an entry whose
\* prevHash is that chainHash.
LastChainHash(lines) ==
    IF lines = << >> THEN GenesisHash ELSE lines[Len(lines)].chainHash

FailedAppendChangesNothing ==
    ~writable => (log' = log /\ lastHash' = lastHash)

AppendLinksToFile ==
    log' # log =>
        /\ Len(log') = Len(log) + 1
        /\ SubSeq(log', 1, Len(log)) = log
        /\ log'[Len(log')].prevHash = LastChainHash(log)

C37_FailedAppendKeepsChain ==
    /\ [](lastHash = LastChainHash(log))
    /\ [][FailedAppendChangesNothing /\ AppendLinksToFile]_vars

C37_Witness ==
    /\ Len(log) = 2
    /\ log[1].status = "success"
    /\ log[2].error.kind = "AppendFailed"
    /\ log[2].prevHash = log[1].chainHash
    /\ \E c \in Calls : call[c].pc = "thrown" /\ call[c].error.kind = "AppendFailed"
                          /\ log[2].call = c

(***************************************************************************)
(* SpecPeers: two gateway processes started on the same audit log path, as *)
(* the integration test starts them (src/tests/mcp-server.test.ts).  Each  *)
(* has an AuditLogger of its own, so a lastHash of its own.  The second    *)
(* process is followed through what it does to the shared file: it loads   *)
(* its lastHash when it starts and appends an entry at the end of a call.  *)
(***************************************************************************)
\* What the calls of the second process log: a success of agent bot, or a
\* call without a token.
PeerEvents ==
    {AuditEvent("bot", "gemini_generate", "success", NoMsg, 0),
     AuditEvent(UnknownAgent, "gemini_generate", "error", Plain("MissingToken"), 0)}

\* new Pincer() in the second process: its AuditLogger loads lastHash.
PeerStart ==
    /\ peerLastHash' = loadLastHash(logExists, log)
    /\ UNCHANGED <<vaultVars, lastHash, log, logExists, writable, env, masterKey,
                   activeSecrets, exited, closed, memory, call, hist>>

\* audit.log(event) at the end of a callTool of the second process.
PeerLog(event) ==
    /\ Len(log) < MaxLogLines
    /\ log' = Append(log, LogEntry(event, peerLastHash))
    /\ logExists' = TRUE
    /\ peerLastHash' = NextLastHash(LogEntry(event, peerLastHash), peerLastHash)
    /\ UNCHANGED <<vaultVars, lastHash, writable, env, masterKey, activeSecrets,
                   exited, closed, memory, call, hist>>

NextPeers ==
    \/ \E c \in Calls, request \in OpsRequests : Arrives(c) /\ CallTool(c, request)
    \/ \E c \in Calls : CheckAuthorized(c)
    \/ \E c \in Calls : Inject(c)
    \/ \E c \in Calls : Execute(c, OkReply)
    \/ \E c \in Calls : Finish(c)
    \/ \E c \in Calls : Return(c)
    \/ \E c \in Calls : Throw(c)
    \/ PeerStart
    \/ \E event \in PeerEvents : PeerLog(event)

SpecPeers == Init /\ [][NextPeers]_vars

\* C38: with two gateway processes appending to one audit log, their calls
\* interleaved, the file still is a chain: the first entry's prevHash is the
\* genesis hash and each later entry's prevHash is the chainHash of the
\* entry before it in the file.
C38_ChainAcrossProcesses ==
    \A i \in DOMAIN log :
        log[i].prevHash = IF i = 1 THEN GenesisHash ELSE log[i - 1].chainHash

(***************************************************************************)
(* SpecLength: a gateway beside a keychain whose value is a key of 32      *)
(* bytes or decodes to another length; its injector's handle serves the    *)
(* calls one after another or at once, until the gateway is stopped and    *)
(* started again.                                                          *)
(***************************************************************************)
StoredKeys == {1, -1}

InitLength ==
    /\ tokens = S1Tokens
    /\ mappings = S1Mappings
    /\ secrets = S1Secrets(<<"A">>)
    /\ keychain \in StoredKeys
    /\ env = Absent
    /\ masterKey = 0
    /\ lastHash = GenesisHash
    /\ log = << >>
    /\ activeSecrets = {}
    /\ exited = FALSE
    /\ call = [c \in Calls |-> IdleCall]
    /\ hist = [c \in Calls |-> NoHist]
    /\ revoked = {}
    /\ removed = {}
    /\ adminOps = 0
    /\ outcome = "none"
    /\ InitRest

NextLength ==
    \/ \E c \in Calls, request \in OpsRequests : Arrives(c) /\ CallTool(c, request)
    \/ \E c \in Calls : CheckAuthorized(c)
    \/ \E c \in Calls : Inject(c)
    \/ \E c \in Calls : Execute(c, OkReply)
    \/ \E c \in Calls : Finish(c)
    \/ \E c \in Calls : Return(c)
    \/ \E c \in Calls : Throw(c)
    \/ Shutdown
    \/ Start

SpecLength == InitLength /\ [][NextLength]_vars

\* C39: getMasterKey never returns a key that is not of 32 bytes: with a
\* keychain value of another length every call on the handle, the first and
\* the later ones, fails with the invalid-length error, and no decryption is
\* attempted with that key.
C39_KeyLengthChecked ==
    /\ LET m == getMasterKey(masterKey, keychain)
       IN  m.ok => KeyBytes(m.key) = KeyLength
    /\ masterKey # 0 => KeyBytes(masterKey) = KeyLength
    /\ \A c \in Calls :
          (KeyBytes(keychain) # KeyLength /\ hist[c].getSecrets > 0) =>
              /\ call[c].error.kind = "InvalidKeyLength"
              /\ hist[c].executes = 0

====
